---- MODULE Spec2Model ----
(***************************************************************************)
(* Model of the u-blox short-range driver core:                            *)
(*   - the EDM digester (src/src/command/custom_digest.rs) driven by an    *)
(*     ingress buffer that receives the UART bytes in chunks;              *)
(*   - the connection runner's URC loop (src/src/asynch/runner.rs);        *)
(*   - the blocking TCP client stack and its handle maps                   *)
(*     (src/ublox-short-range/src/wifi/tcp_stack.rs, wifi/mod.rs,          *)
(*     socket/tcp.rs) together with the module's peer events;              *)
(*   - the asynchronous UDP socket handle and the list of dropped peers    *)
(*     (src/src/asynch/ublox_stack/udp.rs);                                *)
(*   - Wi-Fi station connect and disconnect of the blocking client         *)
(*     (src/ublox-short-range/src/wifi/sta.rs).                            *)
(* Bytes are the integers 0..255; a Rust slice s[a..b] is SubSeq(s,a+1,b). *)
(***************************************************************************)
EXTENDS Integers, Sequences, FiniteSets, TLC

VARIABLES
    scn,        \* the byte stream the module sends: [kind, parts]
    fed,        \* number of bytes of the stream already written to buf
    buf,        \* the ingress buffer handed to digest
    pending,    \* TRUE while the ingress still has to call digest
    calls,      \* history of digest calls: <<[buf, res]>>
    wifi_connection,  \* Runner.wifi_connection: NoConnection or a descriptor
    link_state,       \* the shared link-state register (state::Runner)
    runner_pc,        \* "running" or "panicked"
    handled,          \* number of URCs the run loop has taken
    last_urc,         \* the URC taken last and the outcome of its status refresh
    at_log,           \* commands sent to the module while handling last_urc
    has_sockets,      \* UbloxClient.sockets is Some
    sockets,          \* the socket set: SocketHandle -> socket or NoSocket
    peer_map,         \* SocketMap.peer_map: entries <<PeerHandle, SocketHandle>>
    channel_map,      \* SocketMap.channel_map: entries <<ChannelId, SocketHandle>>
    network,          \* connected_to_network() succeeds
    now,              \* the clock
    tcp_pc,           \* the handle connect waits for, or NoHandle
    ret,              \* the last call of the TCP stack and its result
    edm_log,          \* commands that call handed to the AT client
    module_peers,     \* the peer handles in use on the module
    pending_urcs,     \* peers whose PeerDisconnected URC the driver has not handled yet
    ncalls,           \* number of calls the application has made to the TCP stack
    closed_ok,        \* handles of sockets for which close returned Ok since socket() returned them
    udp_sockets,      \* SocketStack.sockets: handle -> UDP socket or NoUdp
    dropped_sockets,  \* SocketStack.dropped_sockets: peer handles the runner has to close
    waker,            \* SocketStack.waker has been woken and the runner has not run since
    udp_peers,        \* the UDP peers open on the module
    sta_connection,   \* UbloxClient.wifi_connection of the blocking client
    sta_ret,          \* the last call of WifiConnectivity and its result
    sta_log,          \* commands that call handed to the AT client
    edm_in,           \* the EDM command or response handed to as_bytes or parse
    edm_out,          \* what as_bytes or parse returned for edm_in
    init_pc,  \* the statement init reaches next
    init_phase,  \* reset (hard reset) or restart (soft reboot): the caller of wait_startup and enter_edm
    init_timer,  \* ms since enter_edm armed its timeout
    init_log,  \* the steps init has performed, repeated SwitchToEdmCommand written once
    init_result,  \* Pending, Ok or the error init returned
    init_failed,  \* the first step that failed and its error, or NoFailure
    in_edm,  \* SwitchToEdmCommand was confirmed since the last (re)boot
    confirm_age,  \* ms since the last confirmation of SwitchToEdmCommand, -1 once a command followed
    sent_gap,  \* confirm_age when the last command was sent
    retried,  \* enter_edm has retried SwitchToEdmCommand
    last_wait, \* the URC and arrival time the last wait_startup saw
    rec_in,           \* the socket and the instant handed to TcpSocket::recycle
    rec_out,          \* what recycle returned for rec_in
    wait_iter  \* connect: the iterations of the wait loop, modulo 2

vars == <<scn, fed, buf, pending, calls,
          wifi_connection, link_state, runner_pc, handled, last_urc, at_log,
          has_sockets, sockets, peer_map, channel_map, network, now, tcp_pc, ret, edm_log,
          module_peers, pending_urcs, ncalls, closed_ok,
          udp_sockets, dropped_sockets, waker, udp_peers,
          sta_connection, sta_ret, sta_log,
          edm_in, edm_out,
          init_pc, init_phase, init_timer, init_log, init_result, init_failed, in_edm, confirm_age, sent_gap, retried, last_wait,
          rec_in, rec_out,
          wait_iter>>
digestVars == <<scn, fed, buf, pending, calls>>
runnerVars == <<wifi_connection, link_state, runner_pc, handled, last_urc, at_log>>
tcpVars == <<has_sockets, sockets, peer_map, channel_map, network, now, tcp_pc, ret, edm_log,
            module_peers, pending_urcs, ncalls, closed_ok>>
moduleVars == <<module_peers, pending_urcs>>
udpVars == <<udp_sockets, dropped_sockets, waker, udp_peers>>
staVars == <<sta_connection, sta_ret, sta_log>>
edmVars == <<edm_in, edm_out>>
initVars == <<init_pc, init_phase, init_timer, init_log, init_result, init_failed, in_edm, confirm_age, sent_gap, retried, last_wait>>
recVars == <<rec_in, rec_out>>
waitVars == <<wait_iter>>

----------------------------------------------------------------------------
(* Bounds of the model *)

\* longest noise prefix drawn over NoiseAlphabet
MaxNoise == 3
\* longest generated frame payload drawn over GenAlphabet
MaxGen == 2
\* URCs the run loop handles before the model stops counting
MaxUrcs == 4

----------------------------------------------------------------------------
(* EDM constants (command/edm/types.rs) *)

STARTBYTE == 170
ENDBYTE == 85
EDM_FULL_SIZE_FILTER == 4095
EDM_OVERHEAD == 4
AT_COMMAND_POSITION == 5

\* "\r\n"
CRLF == <<13, 10>>
\* "\r\n+STARTUP\r\n"
STARTUPMESSAGE == <<13, 10, 43, 83, 84, 65, 82, 84, 85, 80, 13, 10>>
\* length of the autoconnect banner "\r\n+UUWLE:<id>,<bssid>,<ch>\r\n"
AUTOCONNECTMESSAGE_LEN == 27
\* "ERROR"
ERROR_LITERAL == <<69, 82, 82, 79, 82>>

\* PayloadType discriminants
T_ConnectEvent == 17
T_DisconnectEvent == 33
T_DataEvent == 49
T_DataCommand == 54
T_ATEvent == 65
T_ATRequest == 68
T_ATConfirmation == 69
T_ResendConnectEventsCommand == 86
T_StartEvent == 113
T_Unknown == 255

\* impl From<u8> for PayloadType
PayloadTypeFrom(b) ==
    CASE b = T_ConnectEvent -> "ConnectEvent"
      [] b = T_DisconnectEvent -> "DisconnectEvent"
      [] b = T_DataEvent -> "DataEvent"
      [] b = T_DataCommand -> "DataCommand"
      [] b = T_ATEvent -> "ATEvent"
      [] b = T_ATRequest -> "ATRequest"
      [] b = T_ATConfirmation -> "ATConfirmation"
      [] b = T_ResendConnectEventsCommand -> "ResendConnectEventsCommand"
      [] b = T_StartEvent -> "StartEvent"
      [] OTHER -> "Unknown"

----------------------------------------------------------------------------
(* Slice helpers *)

\* Rust s[a..b]
Slice(s, a, b) == SubSeq(s, a + 1, b)

\* s.windows(Len(pat)).position(|w| w == pat): 0-based index, -1 for None
WindowsPosition(s, pat) ==
    LET w == Len(pat)
        hits == { i \in 0..(Len(s) - w) : Slice(s, i, i + w) = pat }
    IN IF hits = {} THEN -1 ELSE CHOOSE i \in hits : \A j \in hits : i <= j

\* s.windows(Len(pat)).nth(n) == Some(pat)
WindowsNthIs(s, n, pat) ==
    /\ Len(s) >= n + Len(pat)
    /\ Slice(s, n, n + Len(pat)) = pat

StartsWith(s, pat) == Len(s) >= Len(pat) /\ Slice(s, 0, Len(pat)) = pat

RECURSIVE Concat(_)
Concat(parts) ==
    IF Len(parts) = 0 THEN <<>> ELSE Head(parts) \o Concat(Tail(parts))

----------------------------------------------------------------------------
(* EdmDigester::digest *)

\* The digest result: kind is "None", "ResponseOk", "ResponseErr", "Urc" or
\* "Panic" (an index out of bounds); slice is the emitted byte range, start
\* its offset in buf; path names the return statement taken.
Res(kind, path, start, slice, consumed) ==
    [kind |-> kind, path |-> path, start |-> start, slice |-> slice, consumed |-> consumed]

calc_payload_len(resp) ==
    (((resp[2] * 256) + resp[3]) % 65536) % (EDM_FULL_SIZE_FILTER + 1)

\* faulty variant: the startup banner consumes the whole buffer
BannerLine_ConsumeAll(b, len) ==
    IF Slice(b, 0, len) = STARTUPMESSAGE
    THEN Res("Urc", "banner", 0, Slice(b, 0, Len(STARTUPMESSAGE)), Len(b))
    ELSE Res("None", "banner", 0, <<>>, len)

\* lines 33-42: a line "\r\n ... \r\n" of length len heads the buffer
BannerLine(b, len) ==
    IF Slice(b, 0, len) = STARTUPMESSAGE
    THEN Res("Urc", "banner", 0, Slice(b, 0, Len(STARTUPMESSAGE)), Len(STARTUPMESSAGE))
    ELSE IF len = AUTOCONNECTMESSAGE_LEN \/ len = AUTOCONNECTMESSAGE_LEN + 1
         THEN Res("Urc", "banner", 0, Slice(b, 0, len), len)
         ELSE Res("None", "banner", 0, <<>>, len)

\* faulty variant: only the banner is consumed
TrailingStartup_BannerOnly(b) ==
    Res("Urc", "banner", Len(b) - Len(STARTUPMESSAGE),
        Slice(b, Len(b) - Len(STARTUPMESSAGE), Len(b)), Len(STARTUPMESSAGE))

\* lines 44-51: the buffer ends with the startup message
TrailingStartup(b) ==
    Res("Urc", "banner", Len(b) - Len(STARTUPMESSAGE),
        Slice(b, Len(b) - Len(STARTUPMESSAGE), Len(b)), Len(b))

\* faulty variant: "ERROR" searched anywhere in the frame
IsErrorResponse_Anywhere(resp) == WindowsPosition(resp, ERROR_LITERAL) # -1

\* lines 83-85: "ERROR" at the AT command position, or two bytes later
IsErrorResponse(resp) ==
    \/ WindowsNthIs(resp, AT_COMMAND_POSITION, ERROR_LITERAL)
    \/ WindowsNthIs(resp, AT_COMMAND_POSITION + 2, ERROR_LITERAL)

\* faulty variant: the end byte is not checked
FrameComplete_NoEndCheck(b, edm_len) == ~(Len(b) < edm_len)

\* line 70: the frame is complete and closed by the end byte
FrameComplete(b, edm_len) ==
    ~(Len(b) < edm_len \/ b[edm_len] # ENDBYTE)

\* the dispatch with the response types, the event types and the consumed
\* count as parameters
DispatchWith(b, edm_len, responseTypes, eventTypes, consumed) ==
    IF Len(b) < 5
    THEN Res("Panic", "frame", 0, <<>>, 0)
    ELSE LET ty == PayloadTypeFrom(b[5])
             resp == Slice(b, 0, edm_len)
         IN IF ty = "ATConfirmation" /\ IsErrorResponse(resp)
            THEN Res("ResponseErr", "frame", 0, <<>>, consumed)
            ELSE IF ty \in responseTypes
                 THEN Res("ResponseOk", "frame", 0, resp, consumed)
                 ELSE IF ty \in eventTypes
                      THEN Res("Urc", "frame", 0, resp, consumed)
                      ELSE Res("None", "frame", 0, <<>>, consumed)

\* faulty variant: a StartEvent frame is delivered as a URC
DispatchFrame_StartAsUrc(b, edm_len) ==
    DispatchWith(b, edm_len, {"ATConfirmation"},
                 {"StartEvent", "ATEvent", "ConnectEvent", "DataEvent", "DisconnectEvent"},
                 edm_len)

\* faulty variant: a frame of an unsupported type is delivered as a URC
DispatchFrame_UnknownAsUrc(b, edm_len) ==
    DispatchWith(b, edm_len, {"ATConfirmation", "StartEvent"},
                 {"ATEvent", "ConnectEvent", "DataEvent", "DisconnectEvent", "Unknown",
                  "ATRequest", "DataCommand", "ResendConnectEventsCommand"},
                 edm_len)

\* faulty variant: the frame consumes the whole buffer
DispatchFrame_ConsumeAll(b, edm_len) ==
    DispatchWith(b, edm_len, {"ATConfirmation", "StartEvent"},
                 {"ATEvent", "ConnectEvent", "DataEvent", "DisconnectEvent"}, Len(b))

\* lines 80-105: dispatch on the payload type byte buf[4]
DispatchFrame(b, edm_len) ==
    IF Len(b) < 5
    THEN Res("Panic", "frame", 0, <<>>, 0)
    ELSE LET ty == PayloadTypeFrom(b[5])
             resp == Slice(b, 0, edm_len)
         IN CASE ty = "ATConfirmation" ->
                    IF IsErrorResponse(resp)
                    THEN Res("ResponseErr", "frame", 0, <<>>, edm_len)
                    ELSE Res("ResponseOk", "frame", 0, resp, edm_len)
              [] ty = "StartEvent" -> Res("ResponseOk", "frame", 0, resp, edm_len)
              [] ty \in {"ATEvent", "ConnectEvent", "DataEvent", "DisconnectEvent"} ->
                    Res("Urc", "frame", 0, resp, edm_len)
              [] OTHER -> Res("None", "frame", 0, <<>>, edm_len)

\* lines 53-61: position of the start byte; leading invalid data
TrimLeading(b, start_pos) ==
    IF start_pos = -1
    THEN Res("None", "resync", 0, <<>>, 0)
    ELSE Res("None", "resync", 0, <<>>, start_pos)

\* lines 63-105: the buffer starts with the start byte
DigestFrame(b) ==
    IF Len(b) < EDM_OVERHEAD
    THEN Res("None", "partial", 0, <<>>, 0)
    ELSE LET edm_len == calc_payload_len(b) + EDM_OVERHEAD
         IN IF ~FrameComplete(b, edm_len)
            THEN Res("None", "partial", 0, <<>>, 0)
            ELSE DispatchFrame(b, edm_len)

\* lines 53-105
DigestBinary(b) ==
    LET start_pos == WindowsPosition(b, <<STARTBYTE>>)
    IN IF start_pos # 0 THEN TrimLeading(b, start_pos) ELSE DigestFrame(b)

\* lines 20-106
digest(b) ==
    IF Len(b) = 0
    THEN Res("None", "empty", 0, <<>>, 0)
    ELSE IF Len(b) >= Len(STARTUPMESSAGE) /\ Slice(b, 0, 2) = CRLF
         THEN LET i == WindowsPosition(Slice(b, 2, Len(b)), CRLF)
              IN IF i # -1 THEN BannerLine(b, i + 4) ELSE DigestBinary(b)
         ELSE IF Len(b) > Len(STARTUPMESSAGE)
                 /\ Slice(b, Len(b) - Len(STARTUPMESSAGE), Len(b)) = STARTUPMESSAGE
              THEN TrailingStartup(b)
              ELSE DigestBinary(b)

----------------------------------------------------------------------------
(* The byte streams the module sends *)

SeqsUpTo(A, n) == UNION { [1..k -> A] : k \in 0..n }

\* an EDM frame 0xAA | len | 0x00 | T | P | 0x55 with len = |P| + 2
Frame(T, P) ==
    LET len == Len(P) + 2
    IN <<STARTBYTE, (len \div 256) % 16, len % 256, 0, T>> \o P \o <<ENDBYTE>>

\* the frame with its end byte overwritten
Corrupt(F) == [F EXCEPT ![Len(F)] = 0]

P_OK == <<79, 75, 13, 10>>
P_AT == <<65, 84, 13, 10>>
P_ERROR == ERROR_LITERAL \o CRLF
P_CRLF_ERROR == CRLF \o ERROR_LITERAL \o CRLF
P_X_ERROR == <<32>> \o ERROR_LITERAL \o CRLF
P_UUDPD == <<13, 10, 43, 85, 85, 68, 80, 68, 58, 51, 13, 10>>
P_STARTUP == STARTUPMESSAGE
P_DATA_STARTUP == <<1>> \o STARTUPMESSAGE \o <<2>>

CuratedPayloads ==
    {P_OK, P_AT, P_ERROR, P_CRLF_ERROR, P_X_ERROR, P_UUDPD, P_STARTUP, P_DATA_STARTUP}

GenAlphabet == {STARTBYTE, ENDBYTE, 13, 10}
NoiseAlphabet == {0, 13, 10}

Payloads == CuratedPayloads \cup SeqsUpTo(GenAlphabet, MaxGen)

HandledTypes ==
    {T_ATConfirmation, T_StartEvent, T_ATEvent, T_ConnectEvent, T_DataEvent, T_DisconnectEvent}
TypeBytes == HandledTypes \cup {T_ATRequest, T_Unknown}

Frames == { Frame(T, P) : T \in TypeBytes, P \in Payloads }
SmallFrames ==
    { Frame(T, P) : T \in {T_ATConfirmation, T_ATEvent, T_Unknown},
                    P \in {P_OK, P_ERROR, P_DATA_STARTUP} }
PairFrames == { Frame(T, P) : T \in TypeBytes, P \in {P_OK, P_AT, P_ERROR} }

\* a text line of the autoconnect banner's length, and one that is longer
AutoconnectLine == CRLF \o [i \in 1..(AUTOCONNECTMESSAGE_LEN - 4) |-> 43] \o CRLF
LongLine == CRLF \o [i \in 1..12 |-> 43] \o CRLF

Noise == SeqsUpTo(NoiseAlphabet, MaxNoise) \ {<<>>}
Garbage == Noise \cup {AutoconnectLine, LongLine, [i \in 1..13 |-> 0], STARTUPMESSAGE,
                       <<0>> \o STARTUPMESSAGE}

\* frames whose length field is 0 or 1
ShortFrames == { <<STARTBYTE, 0, 0, ENDBYTE>>, <<STARTBYTE, 0, 1, 0, ENDBYTE>> }

Scenarios ==
    { [kind |-> "single", parts |-> <<F>>] : F \in Frames }
    \cup { [kind |-> "noise", parts |-> <<N, F>>] : N \in Noise, F \in SmallFrames }
    \cup { [kind |-> "pair", parts |-> <<F1, F2>>] : F1 \in PairFrames, F2 \in PairFrames }
    \cup { [kind |-> "banner", parts |-> <<STARTUPMESSAGE, F>>] :
              F \in { Frame(T_ATConfirmation, P) : P \in Payloads } }
    \cup { [kind |-> "garbage", parts |-> <<N>>] : N \in Garbage }
    \cup { [kind |-> "corrupt", parts |-> <<Corrupt(F1), F2>>] :
              F1 \in SmallFrames, F2 \in SmallFrames }
    \cup { [kind |-> "trailing", parts |-> <<F, STARTUPMESSAGE>>] : F \in SmallFrames }
    \cup { [kind |-> "short", parts |-> <<S>> \o T] :
              S \in ShortFrames, T \in {<<>>, <<Frame(T_ATConfirmation, P_OK)>>} }

Input == Concat(scn.parts)

----------------------------------------------------------------------------
(* The ingress: bytes arrive in one or two chunks; after each chunk digest is
   called until it returns (None, 0) *)

InitDigest ==
    /\ scn \in Scenarios
    /\ fed = 0
    /\ buf = <<>>
    /\ pending = FALSE
    /\ calls = <<>>

\* the first k bytes of the stream arrive
Write(k) ==
    /\ fed = 0
    /\ ~pending
    /\ k \in 1..Len(Input)
    /\ buf' = buf \o Slice(Input, 0, k)
    /\ fed' = k
    /\ pending' = TRUE
    /\ UNCHANGED <<scn, calls>>

\* the rest of the stream arrives
WriteRest ==
    /\ fed > 0
    /\ fed < Len(Input)
    /\ ~pending
    /\ buf' = buf \o Slice(Input, fed, Len(Input))
    /\ fed' = Len(Input)
    /\ pending' = TRUE
    /\ UNCHANGED <<scn, calls>>

\* one call of digest on the ingress buffer; the consumed bytes are dropped
Digest ==
    /\ pending
    /\ LET r == digest(buf)
       IN /\ calls' = Append(calls, [buf |-> buf, res |-> r])
          /\ buf' = Slice(buf, r.consumed, Len(buf))
          /\ pending' = (r.kind # "Panic" /\ ~(r.kind = "None" /\ r.consumed = 0))
    /\ UNCHANGED <<scn, fed>>

----------------------------------------------------------------------------
(* The connection runner: Runner::run *)

NoConnection ==
    [exists |-> FALSE, wifi_state |-> "Inactive", network_up |-> FALSE,
     bssid |-> 0, channel |-> 0, activated |-> FALSE]

\* WifiConnection::new(WifiNetwork::new_station(bssid, channel), wifi_state, 255).activate()
NewStationConnection(bssid, channel, wifi_state) ==
    [exists |-> TRUE, wifi_state |-> wifi_state, network_up |-> FALSE,
     bssid |-> bssid, channel |-> channel, activated |-> TRUE]

NoUrc == [kind |-> "none", refresh |-> "none"]

InitRunner ==
    /\ wifi_connection = NoConnection
    /\ link_state = "Down"
    /\ runner_pc = "running"
    /\ handled = 0
    /\ last_urc = NoUrc
    /\ at_log = <<>>

\* faulty variant: the Wi-Fi state of the descriptor is not looked at
LinkStateOf_IgnoreWifiState(conn) ==
    IF conn.exists /\ conn.network_up THEN "Up" ELSE "Down"

\* Runner::is_link_up: the link state of a descriptor
LinkStateOf(conn) ==
    IF conn.exists /\ conn.network_up /\ conn.wifi_state = "Connected"
    THEN "Up" ELSE "Down"

\* the loop takes the next URC
TakeUrc(kind, refresh) ==
    /\ runner_pc = "running"
    /\ handled < MaxUrcs
    /\ handled' = handled + 1
    /\ last_urc' = [kind |-> kind, refresh |-> refresh]

\* faulty variant: the restart drops the descriptor and the link
UrcStartUp_Resets(kind) ==
    /\ TakeUrc(kind, "none")
    /\ at_log' = <<>>
    /\ wifi_connection' = NoConnection
    /\ link_state' = "Down"
    /\ UNCHANGED runner_pc

\* Urc::StartUp and EdmEvent::StartUp: logged only
UrcStartUp(kind) ==
    /\ TakeUrc(kind, "none")
    /\ at_log' = <<>>
    /\ UNCHANGED <<wifi_connection, link_state, runner_pc>>

\* Urc::WifiLinkConnected
UrcWifiLinkConnected(bssid, channel) ==
    /\ TakeUrc("WifiLinkConnected", "none")
    /\ wifi_connection' =
          IF wifi_connection.exists
          THEN [wifi_connection EXCEPT !.wifi_state = "Connected",
                                       !.bssid = bssid, !.channel = channel]
          ELSE NewStationConnection(bssid, channel, "Connected")
    /\ link_state' = LinkStateOf(wifi_connection')
    /\ at_log' = <<>>
    /\ UNCHANGED runner_pc

DisconnectReasons ==
    {"Unknown", "RemoteClose", "OutOfRange", "Roaming", "SecurityProblems", "NetworkDisabled"}

\* faulty variant: security problems drop the connection like any other reason
StateAfterDisconnect_NoSecurityArm(wifi_state, reason) ==
    IF reason = "NetworkDisabled" THEN "Inactive" ELSE "NotConnected"

\* lines 246-256: match reason
StateAfterDisconnect(wifi_state, reason) ==
    CASE reason = "NetworkDisabled" -> "Inactive"
      [] reason = "SecurityProblems" -> wifi_state
      [] OTHER -> "NotConnected"

\* Urc::WifiLinkDisconnected
UrcWifiLinkDisconnected(reason) ==
    /\ TakeUrc("WifiLinkDisconnected", "none")
    /\ wifi_connection' =
          IF wifi_connection.exists
          THEN [wifi_connection EXCEPT
                   !.wifi_state = StateAfterDisconnect(wifi_connection.wifi_state, reason)]
          ELSE wifi_connection
    /\ link_state' = LinkStateOf(wifi_connection')
    /\ at_log' = <<>>
    /\ UNCHANGED runner_pc

\* answers of the module to GetNetworkStatus: a command error, a response
\* carrying another status than the one asked for, or the status value
InterfaceAnswers == {"Err", "WifiStation", "OtherInterface"}
AddressAnswers == {"Err", "OtherStatus", "Unparseable", "Unspecified", "Address"}

\* the commands network_status_callback sends before it returns
StatusQueries(iface, gw, ll) ==
    IF iface # "WifiStation" THEN <<"InterfaceType">>
    ELSE IF gw \in {"Err", "OtherStatus"} THEN <<"InterfaceType", "Gateway">>
    ELSE <<"InterfaceType", "Gateway", "IPv6LinkLocalAddress">>

\* Runner::network_status_callback returns Ok
StatusCallbackOk(iface, gw, ll) ==
    /\ iface = "WifiStation"
    /\ gw \notin {"Err", "OtherStatus"}
    /\ ll \notin {"Err", "OtherStatus"}

\* faulty variant: the IPv6 link-local address is not looked at
NetworkUpOf_Ipv4Only(gw, ll) ==
    gw = "Address"

\* ipv4_up && ipv6_up: each address parses and is not the unspecified one
NetworkUpOf(gw, ll) ==
    gw = "Address" /\ ll = "Address"

\* Urc::NetworkUp and Urc::NetworkDown: refresh the network status; the
\* result of the callback is unwrapped
UrcNetworkChange(kind, iface, gw, ll) ==
    /\ TakeUrc(kind, IF StatusCallbackOk(iface, gw, ll) THEN "ok" ELSE "failed")
    /\ at_log' = StatusQueries(iface, gw, ll)
    /\ IF StatusCallbackOk(iface, gw, ll)
       THEN /\ wifi_connection' =
                  IF wifi_connection.exists
                  THEN [wifi_connection EXCEPT
                            !.network_up = NetworkUpOf(gw, ll)]
                  ELSE wifi_connection
            /\ link_state' = LinkStateOf(wifi_connection')
            /\ UNCHANGED runner_pc
       ELSE /\ runner_pc' = "panicked"
            /\ UNCHANGED <<wifi_connection, link_state>>

TodoUrcs ==
    {"WifiAPUp", "WifiAPDown", "WifiAPStationConnected", "WifiAPStationDisconnected",
     "EthernetLinkUp", "EthernetLinkDown", "NetworkError"}

\* the URCs whose arm is todo!()
UrcTodo(kind) ==
    /\ TakeUrc(kind, "none")
    /\ runner_pc' = "panicked"
    /\ at_log' = <<>>
    /\ UNCHANGED <<wifi_connection, link_state>>

\* every other EdmEvent: ignored
UrcOther ==
    /\ TakeUrc("Other", "none")
    /\ at_log' = <<>>
    /\ UNCHANGED <<wifi_connection, link_state, runner_pc>>

----------------------------------------------------------------------------
(* The blocking TCP client stack (src/ublox-short-range/src/wifi) *)

\* calls the application makes to the TCP stack
MaxCalls == 6
\* capacity N of the socket set
Capacity == 2
\* last instant of the clock
MaxTime == 1

EGRESS_CHUNK_SIZE == 512
PEER_MAP_CAPACITY == 4
CHANNEL_MAP_CAPACITY == 4

SocketHandles == 0..(Capacity - 1)
\* the peer handles and channel ids the module hands out
PeerHandles == {0, 1}
ChannelIds == {0, 1}
\* the read timeouts an application sets
ReadTimeouts == {1}
Remotes == {"r1"}

NoHandle == -1
NoRemote == "none"
NoTimeout == -1

\* a free slot of the socket set
NoSocket == [tag |-> "None", remote |-> NoRemote, at |-> 0, read_timeout |-> NoTimeout]

\* TcpSocket::new: state Created, no read timeout
TcpSocket_new == [tag |-> "Created", remote |-> NoRemote, at |-> 0, read_timeout |-> NoTimeout]

\* TcpSocket::set_state for the four states
set_state(s, tag, remote, at) == [s EXCEPT !.tag = tag, !.remote = remote, !.at = at]
Created(s) == set_state(s, "Created", NoRemote, 0)
WaitingForConnect(s, r) == set_state(s, "WaitingForConnect", r, 0)
Connected(s, r) == set_state(s, "Connected", r, 0)

\* TcpSocket::closed_by_remote
closed_by_remote(s, ts) == set_state(s, "ShutdownForWrite", NoRemote, ts)

\* faulty variant: a socket without read timeout is recycled as well
recycle_NoTimeoutCheck(s, ts) ==
    s.tag = "ShutdownForWrite" /\ ts >= s.at /\ ts - s.at >= s.read_timeout

\* the longest duration, in whole seconds, that Milliseconds<u32> holds:
\* u32::MAX / 1000
MAX_MILLIS_SECONDS == 4294967

\* dur.try_into().ok() into Milliseconds<u32>: None when the milliseconds
\* do not fit 32 bits (the clock of the model ticks in seconds)
FitsMillis(dur) == dur <= MAX_MILLIS_SECONDS

\* TcpSocket::recycle
recycle(s, ts) ==
    IF s.read_timeout # NoTimeout
    THEN IF s.tag = "ShutdownForWrite"
         THEN ts >= s.at /\ FitsMillis(ts - s.at) /\ ts - s.at >= s.read_timeout
         ELSE FALSE
    ELSE FALSE

\* TcpSocket::is_connected
tcp_is_connected(s) == s.tag = "Connected"

\* TcpSocket::may_recv with an empty receive buffer
may_recv(s) == s.tag \in {"Connected", "ShutdownForWrite"}

\* the socket set: len, get, remove, add, recycle
Live(set) == {h \in SocketHandles : set[h] # NoSocket}
SocketSet_len(set) == Cardinality(Live(set))
SocketSet_has(set, h) == h \in SocketHandles /\ set[h] # NoSocket
SocketSet_remove(set, h) == [set EXCEPT ![h] = NoSocket]
SocketSet_add(set, h, s) == [set EXCEPT ![h] = s]
SocketSet_recycle(set, ts) ==
    [h \in SocketHandles |-> IF set[h] # NoSocket /\ recycle(set[h], ts) THEN NoSocket ELSE set[h]]

\* new_socket_num: the smallest handle not in use
new_socket_num(set) == CHOOSE h \in SocketHandles \ Live(set) :
                          \A g \in SocketHandles \ Live(set) : h <= g

\* heapless::FnvIndexMap as the sequence of its <<key, value>> entries in
\* iteration order
EmptyMap == <<>>
Keys(m) == {m[i][1] : i \in 1..Len(m)}
IndexOf(m, k) == CHOOSE i \in 1..Len(m) : m[i][1] = k

\* insert: replaces the value of a present key, appends a new key, fails
\* when the key is new and the map is full
IndexMap_insert(m, k, v, cap) ==
    IF k \in Keys(m)
    THEN [ok |-> TRUE, map |-> [m EXCEPT ![IndexOf(m, k)] = <<k, v>>]]
    ELSE IF Len(m) >= cap
         THEN [ok |-> FALSE, map |-> m]
         ELSE [ok |-> TRUE, map |-> Append(m, <<k, v>>)]

\* remove is swap_remove: the last entry takes the place of the removed one
IndexMap_remove(m, k) ==
    IF k \notin Keys(m) THEN m
    ELSE LET i == IndexOf(m, k)
             n == Len(m)
         IN IF i = n THEN SubSeq(m, 1, n - 1)
            ELSE [j \in 1..(n - 1) |-> IF j = i THEN m[n] ELSE m[j]]

\* get: the value of a key, or NoHandle
IndexMap_get(m, k) == IF k \in Keys(m) THEN m[IndexOf(m, k)][2] ELSE NoHandle

\* iter().find_map: the first key whose value is v, or NoHandle
IndexMap_find(m, v) ==
    IF \E i \in 1..Len(m) : m[i][2] = v
    THEN m[CHOOSE i \in 1..Len(m) :
              m[i][2] = v /\ \A j \in 1..(i - 1) : m[j][2] # v][1]
    ELSE NoHandle

\* faulty variant: a peer handle that is already a key keeps its socket
insert_peer_KeepExisting(m, peer, h) ==
    IF peer \in Keys(m)
    THEN [ok |-> TRUE, map |-> m]
    ELSE IndexMap_insert(m, peer, h, PEER_MAP_CAPACITY)

\* SocketMap
insert_peer(m, peer, h) == IndexMap_insert(m, peer, h, PEER_MAP_CAPACITY)
remove_peer(m, peer) == IndexMap_remove(m, peer)
peer_to_socket(m, peer) == IndexMap_get(m, peer)
socket_to_peer(m, h) == IndexMap_find(m, h)
insert_channel(m, ch, h) == IndexMap_insert(m, ch, h, CHANNEL_MAP_CAPACITY)
remove_channel(m, ch) == IndexMap_remove(m, ch)
channel_to_socket(m, ch) == IndexMap_get(m, ch)
socket_to_channel_id(m, h) == IndexMap_find(m, h)

\* the lowest handle of all that is not in use
LowestFree(all, used) == CHOOSE k \in all \ used : \A j \in all \ used : k <= j

\* the last call: the operation, its handle argument (for socket: the handle
\* returned), the result, and a number (socket: the sockets recycled;
\* connect: the peer handle; send: the length returned)
NoRet == [op |-> "none", h |-> NoHandle, res |-> "none", n |-> 0]
Ret(op, h, res, n) == [op |-> op, h |-> h, res |-> res, n |-> n]

\* no connect is waiting
InitWaitIdle == wait_iter = 0

\* the driver before any socket storage is attached
InitTcpIdle ==
    /\ has_sockets = FALSE
    /\ sockets = [h \in SocketHandles |-> NoSocket]
    /\ peer_map = EmptyMap
    /\ channel_map = EmptyMap
    /\ network = FALSE
    /\ now = 0
    /\ tcp_pc = NoHandle
    /\ ret = NoRet
    /\ edm_log = <<>>
    /\ module_peers = {}
    /\ pending_urcs = {}
    /\ ncalls = 0
    /\ closed_ok = {}

\* a command handed to the AT client: ConnectPeer (id: none), ClosePeerConnection
\* (id: the peer handle) or EdmDataCommand (id: the channel, data: the chunk)
Cmd(cmd, id, data) == [cmd |-> cmd, id |-> id, data |-> data]

\* the application calls into the stack: no call is in progress
Call ==
    /\ tcp_pc = NoHandle
    /\ ncalls < MaxCalls
    /\ ncalls' = ncalls + 1

\* connected_to_network
connected_to_network == network

\* TcpClientStack::socket
socket ==
    /\ Call
    /\ edm_log' = <<>>
    /\ IF ~connected_to_network \/ ~has_sockets
       THEN /\ ret' = Ret("socket", NoHandle, "Illegal", 0)
            /\ UNCHANGED <<sockets, closed_ok>>
       ELSE LET full == SocketSet_len(sockets) >= Capacity
                recycled == IF full THEN SocketSet_recycle(sockets, now) ELSE sockets
            IN IF full /\ recycled = sockets
               THEN /\ ret' = Ret("socket", NoHandle, "SocketSetFull", 0)
                    /\ UNCHANGED <<sockets, closed_ok>>
               ELSE LET socket_id == new_socket_num(recycled)
                    IN /\ sockets' = SocketSet_add(recycled, socket_id, TcpSocket_new)
                       /\ ret' = Ret("socket", socket_id, "Ok",
                                     Cardinality(Live(sockets) \ Live(recycled)))
                       /\ closed_ok' = closed_ok \ {socket_id}
    /\ UNCHANGED <<has_sockets, peer_map, channel_map, network, now, tcp_pc, moduleVars>>

UrlAnswers == {"Ok", "Err"}
ConnectPeerAnswers == {"Ok", "Err"}

\* TcpClientStack::connect up to the wait loop; the module answers
\* ConnectPeer with its lowest free peer handle
connect(h, remote, url, answer) ==
    /\ Call
    /\ answer = "Ok" => PeerHandles \ module_peers # {}
    /\ IF ~has_sockets \/ ~connected_to_network
       THEN /\ ret' = Ret("connect", h, "Illegal", 0)
            /\ edm_log' = <<>>
            /\ UNCHANGED <<sockets, peer_map, tcp_pc, module_peers>>
       ELSE IF url = "Err"
       THEN /\ ret' = Ret("connect", h, "Unaddressable", 0)
            /\ edm_log' = <<>>
            /\ UNCHANGED <<sockets, peer_map, tcp_pc, module_peers>>
       ELSE IF ~SocketSet_has(sockets, h)
       THEN /\ ret' = Ret("connect", h, "NotFound", 0)
            /\ edm_log' = <<>>
            /\ UNCHANGED <<sockets, peer_map, tcp_pc, module_peers>>
       ELSE /\ edm_log' = <<Cmd("ConnectPeer", NoHandle, <<>>)>>
            /\ IF answer = "Err"
               THEN /\ sockets' = [sockets EXCEPT ![h] = Created(@)]
                    /\ ret' = Ret("connect", h, "Unaddressable", 0)
                    /\ UNCHANGED <<peer_map, tcp_pc, module_peers>>
               ELSE LET peer_handle == LowestFree(PeerHandles, module_peers)
                        ins == insert_peer(peer_map, peer_handle, h)
                    IN /\ sockets' = [sockets EXCEPT ![h] = WaitingForConnect(@, remote)]
                       /\ module_peers' = module_peers \cup {peer_handle}
                       /\ peer_map' = ins.map
                       /\ IF ins.ok
                          THEN /\ tcp_pc' = h
                               /\ ret' = Ret("connect", h, "waiting", peer_handle)
                          ELSE /\ ret' = Ret("connect", h, "InvalidSocket", peer_handle)
                               /\ UNCHANGED tcp_pc
    /\ UNCHANGED <<has_sockets, channel_map, network, now, pending_urcs, closed_ok>>

\* the driver state the URC handler works on
DriverState == [sockets |-> sockets, peer_map |-> peer_map,
                channel_map |-> channel_map, network |-> network]

Ev(kind, arg) == [kind |-> kind, arg |-> arg]

\* the socket a ConnectEvent for remote r is bound to
WaitingFor(set, r) ==
    {h \in Live(set) : set[h].tag = "WaitingForConnect" /\ set[h].remote = r}
FirstWaitingFor(set, r) ==
    CHOOSE h \in WaitingFor(set, r) : \A g \in WaitingFor(set, r) : h <= g

\* the module events that can reach the driver in state st
ModuleEvents(st) ==
    {Ev("none", NoHandle)}
      \cup {Ev("ConnectEvent", r) : r \in {q \in Remotes :
                  WaitingFor(st.sockets, q) # {} /\ ChannelIds \ Keys(st.channel_map) # {}}}
      \cup {Ev("PeerDisconnected", p) : p \in module_peers \cup pending_urcs}
      \cup {Ev("DisconnectEvent", c) : c \in Keys(st.channel_map)}
      \cup {Ev("NetworkDown", NoHandle), Ev("NetworkUp", NoHandle)}

\* handle_urc: the effect of one module event on the driver state
handle_urc(st, ev) ==
    CASE ev.kind = "ConnectEvent" ->
            LET h == FirstWaitingFor(st.sockets, ev.arg)
                ch == LowestFree(ChannelIds, Keys(st.channel_map))
            IN [st EXCEPT !.sockets[h] = Connected(@, ev.arg),
                          !.channel_map = insert_channel(@, ch, h).map]
      [] ev.kind = "PeerDisconnected" ->
            LET h == peer_to_socket(st.peer_map, ev.arg)
            IN [st EXCEPT !.sockets = IF SocketSet_has(@, h)
                                      THEN [@ EXCEPT ![h] = closed_by_remote(@, now)]
                                      ELSE @,
                          !.peer_map = remove_peer(@, ev.arg)]
      [] ev.kind = "DisconnectEvent" ->
            [st EXCEPT !.channel_map = remove_channel(@, ev.arg)]
      [] ev.kind = "NetworkDown" -> [st EXCEPT !.network = FALSE]
      [] ev.kind = "NetworkUp" -> [st EXCEPT !.network = TRUE]
      [] OTHER -> st

\* the module after it has delivered an event: a pending PeerDisconnected
\* is gone; without a pending one the peer was closed by the remote just now
ModuleDelivers(ev) ==
    IF ev.kind = "PeerDisconnected"
    THEN /\ pending_urcs' = pending_urcs \ {ev.arg}
         /\ module_peers' = IF ev.arg \in pending_urcs THEN module_peers
                            ELSE module_peers \ {ev.arg}
    ELSE UNCHANGED moduleVars

SetDriverState(st) ==
    /\ sockets' = st.sockets
    /\ peer_map' = st.peer_map
    /\ channel_map' = st.channel_map
    /\ network' = st.network

\* connect, the wait loop: the socket left WaitingForConnect
ConnectReturn ==
    /\ tcp_pc # NoHandle
    /\ sockets[tcp_pc].tag # "WaitingForConnect"
    /\ ret' = Ret("connect", tcp_pc, IF SocketSet_has(sockets, tcp_pc) THEN "Ok" ELSE "NotFound", ret.n)
    /\ tcp_pc' = NoHandle
    /\ wait_iter' = 0
    /\ UNCHANGED <<has_sockets, sockets, peer_map, channel_map, network, now, edm_log, moduleVars, ncalls, closed_ok>>

\* connect, the wait loop: one spin() that handles a module event
ConnectSpin(ev) ==
    /\ tcp_pc # NoHandle
    /\ sockets[tcp_pc].tag = "WaitingForConnect"
    /\ ev \in ModuleEvents(DriverState)
    /\ SetDriverState(handle_urc(DriverState, ev))
    /\ ModuleDelivers(ev)
    /\ wait_iter' = 1 - wait_iter
    /\ UNCHANGED <<has_sockets, now, tcp_pc, ret, edm_log, ncalls, closed_ok>>

\* connect, the wait loop: spin() fails
ConnectSpinFails ==
    /\ tcp_pc # NoHandle
    /\ sockets[tcp_pc].tag = "WaitingForConnect"
    /\ ret' = Ret("connect", tcp_pc, "Illegal", ret.n)
    /\ tcp_pc' = NoHandle
    /\ wait_iter' = 0
    /\ UNCHANGED <<has_sockets, sockets, peer_map, channel_map, network, now, edm_log, moduleVars, ncalls, closed_ok>>

\* TcpClientStack::is_connected
is_connected(h) ==
    IF ~connected_to_network THEN "false"
    ELSE IF ~has_sockets THEN "Illegal"
    ELSE IF ~SocketSet_has(sockets, h) THEN "NotFound"
    ELSE IF tcp_is_connected(sockets[h]) THEN "true" ELSE "false"

\* the buffers an application sends: n bytes i mod 256
SendLengths == {0, 1, EGRESS_CHUNK_SIZE, EGRESS_CHUNK_SIZE + 1, 2 * EGRESS_CHUNK_SIZE + 1}
Buffers == [n \in SendLengths |-> [i \in 1..n |-> i % 256]]
Buf(n) == Buffers[n]

\* the chunk the module refuses: none, or the second
FailAts == {0, 2}

RECURSIVE chunks_DropRemainder(_, _)
\* faulty variant: chunks_exact, the trailing short chunk is dropped
chunks_DropRemainder(s, n) ==
    IF Len(s) < n THEN <<>>
    ELSE <<SubSeq(s, 1, n)>> \o chunks_DropRemainder(SubSeq(s, n + 1, Len(s)), n)

RECURSIVE chunks(_, _)
\* slice::chunks
chunks(s, n) ==
    IF Len(s) = 0 THEN <<>>
    ELSE IF Len(s) <= n THEN <<s>>
    ELSE <<SubSeq(s, 1, n)>> \o chunks(SubSeq(s, n + 1, Len(s)), n)

\* TcpClientStack::send; the module refuses chunk number fail_at (0: none)
send(h, buffer, fail_at) ==
    /\ Call
    /\ IF ~connected_to_network \/ ~has_sockets
       THEN ret' = Ret("send", h, "Illegal", 0) /\ edm_log' = <<>>
       ELSE IF ~SocketSet_has(sockets, h)
       THEN ret' = Ret("send", h, "NotFound", 0) /\ edm_log' = <<>>
       ELSE IF ~tcp_is_connected(sockets[h])
       THEN ret' = Ret("send", h, "SocketClosed", 0) /\ edm_log' = <<>>
       ELSE IF socket_to_channel_id(channel_map, h) = NoHandle
       THEN ret' = Ret("send", h, "SocketClosed", 0) /\ edm_log' = <<>>
       ELSE LET channel == socket_to_channel_id(channel_map, h)
                cs == chunks(buffer, EGRESS_CHUNK_SIZE)
                sent == IF fail_at \in 1..Len(cs) THEN SubSeq(cs, 1, fail_at) ELSE cs
            IN /\ edm_log' = [i \in 1..Len(sent) |-> Cmd("EdmDataCommand", channel, sent[i])]
               /\ ret' = IF fail_at \in 1..Len(cs)
                         THEN Ret("send", h, "Unaddressable", 0)
                         ELSE Ret("send", h, "Ok", Len(buffer))
    /\ UNCHANGED <<has_sockets, sockets, peer_map, channel_map, network, now, tcp_pc, moduleVars, closed_ok>>

\* TcpClientStack::receive with an empty receive buffer: one spin(), then
\* recycle(), then recv_slice
receive(h, ev) ==
    /\ Call
    /\ ev \in ModuleEvents(DriverState)
    /\ edm_log' = <<>>
    /\ LET st == handle_urc(DriverState, ev)
           after == IF has_sockets
                    THEN [st EXCEPT !.sockets = SocketSet_recycle(@, now)]
                    ELSE st
       IN /\ SetDriverState(after)
          /\ ret' = IF ~has_sockets THEN Ret("receive", h, "Illegal", 0)
                    ELSE IF ~SocketSet_has(after.sockets, h) THEN Ret("receive", h, "NotFound", 0)
                    ELSE IF ~may_recv(after.sockets[h]) THEN Ret("receive", h, "Illegal", 0)
                    ELSE Ret("receive", h, "Ok", 0)
    /\ ModuleDelivers(ev)
    /\ UNCHANGED <<has_sockets, now, tcp_pc, closed_ok>>

\* receive: spin() fails
ReceiveSpinFails(h) ==
    /\ Call
    /\ edm_log' = <<>>
    /\ ret' = Ret("receive", h, "Illegal", 0)
    /\ UNCHANGED <<has_sockets, sockets, peer_map, channel_map, network, now, tcp_pc, moduleVars, closed_ok>>

ClosePeerAnswers == {"Ok", "InvalidResponse", "Err"}

\* faulty variant: an InvalidResponse to ClosePeerConnection is an error
CloseResult_InvalidResponseFails(answer) ==
    IF answer = "Ok" THEN "Ok" ELSE "Unaddressable"

\* the result of close for the module's answer to ClosePeerConnection
CloseResult(answer) ==
    IF answer \in {"Ok", "InvalidResponse"} THEN "Ok" ELSE "Unaddressable"

\* the module's answers to ClosePeerConnection for a peer: Ok closes a peer
\* in use, InvalidResponse says the peer is gone, Err is any other failure
ClosePeerAnswersFor(peer) ==
    (IF peer \in module_peers THEN {"Ok"} ELSE {"InvalidResponse"}) \cup {"Err"}

\* the module closes the peer and queues its PeerDisconnected URC
ModuleCloses(peer, answer) ==
    IF answer = "Ok"
    THEN /\ module_peers' = module_peers \ {peer}
         /\ pending_urcs' = pending_urcs \cup {peer}
    ELSE UNCHANGED moduleVars

\* faulty variant: only a socket shut down by the remote has no connection
ConnectionExists_UnlessShutdown(s) ==
    s.tag # "ShutdownForWrite"

\* close: the socket is not closed, a connection exists that has to be closed
ConnectionExists(s) ==
    s.tag \notin {"ShutdownForWrite", "Created"}

\* TcpClientStack::close
close(h, answer) ==
    /\ Call
    /\ IF ~has_sockets
       THEN /\ ret' = Ret("close", h, "Illegal", 0)
            /\ edm_log' = <<>>
            /\ UNCHANGED <<sockets, moduleVars>>
       ELSE IF ~SocketSet_has(sockets, h)
       THEN /\ ret' = Ret("close", h, "Ok", 0)
            /\ edm_log' = <<>>
            /\ UNCHANGED <<sockets, moduleVars>>
       ELSE IF ConnectionExists(sockets[h])
       THEN IF socket_to_peer(peer_map, h) # NoHandle
            THEN LET peer_handle == socket_to_peer(peer_map, h)
                 IN /\ answer \in ClosePeerAnswersFor(peer_handle)
                    /\ edm_log' = <<Cmd("ClosePeerConnection", peer_handle, <<>>)>>
                    /\ ret' = Ret("close", h, CloseResult(answer), 0)
                    /\ ModuleCloses(peer_handle, answer)
                    /\ UNCHANGED sockets
            ELSE /\ ret' = Ret("close", h, "Illegal", 0)
                 /\ edm_log' = <<>>
                 /\ UNCHANGED <<sockets, moduleVars>>
       ELSE /\ sockets' = SocketSet_remove(sockets, h)
            /\ ret' = Ret("close", h, "Ok", 0)
            /\ edm_log' = <<>>
            /\ UNCHANGED moduleVars
    /\ closed_ok' = IF ret'.res = "Ok" /\ SocketSet_has(sockets, h)
                    THEN closed_ok \cup {h} ELSE closed_ok
    /\ UNCHANGED <<has_sockets, peer_map, channel_map, network, now, tcp_pc>>

\* the application sets the read timeout of a socket
set_read_timeout(h, t) ==
    /\ Call
    /\ has_sockets /\ SocketSet_has(sockets, h)
    /\ sockets[h].read_timeout = NoTimeout
    /\ sockets' = [sockets EXCEPT ![h].read_timeout = t]
    /\ UNCHANGED <<has_sockets, peer_map, channel_map, network, now, tcp_pc, ret, edm_log, moduleVars, closed_ok>>

\* the clock advances
Tick ==
    /\ now < MaxTime
    /\ now' = now + 1
    /\ UNCHANGED <<has_sockets, sockets, peer_map, channel_map, network, tcp_pc, ret, edm_log, moduleVars, ncalls, closed_ok>>

----------------------------------------------------------------------------
(* The asynchronous UDP socket (asynch/ublox_stack/udp.rs) *)

\* slots of the socket set of the asynchronous stack
UdpCapacity == 4
UdpHandles == 0..(UdpCapacity - 1)
\* the peer handles the module hands out for UDP peers
UdpPeers == 0..(UdpCapacity - 1)

\* capacity of SocketStack.dropped_sockets
DROPPED_SOCKETS_CAPACITY == 3

NoUdp == [state |-> "None", peer_handle |-> NoHandle]
\* udp::Socket::new: closed, no peer
UdpSocket_fresh == [state |-> "Closed", peer_handle |-> NoHandle]

UdpLive == {h \in UdpHandles : udp_sockets[h] # NoUdp}

InitUdpIdle ==
    /\ udp_sockets = [h \in UdpHandles |-> NoUdp]
    /\ dropped_sockets = <<>>
    /\ waker = FALSE
    /\ udp_peers = {}

\* heapless::Vec::push(..).ok(): a full list stays as it is
Vec_push(v, x, cap) ==
    IF Len(v) < cap THEN Append(v, x) ELSE v

\* UdpSocket::new: the socket set gives the socket a free handle
UdpSocket_new ==
    /\ UdpHandles \ UdpLive # {}
    /\ udp_sockets' = [udp_sockets EXCEPT ![LowestFree(UdpHandles, UdpLive)] = UdpSocket_fresh]
    /\ UNCHANGED <<dropped_sockets, waker, udp_peers>>

\* the stack opens the socket towards its remote: the socket is Established
\* and, once the module has answered, carries the peer handle
StackEstablishes(h, with_peer) ==
    /\ udp_sockets[h] = UdpSocket_fresh
    /\ with_peer => UdpPeers \ udp_peers # {}
    /\ LET p == IF with_peer THEN LowestFree(UdpPeers, udp_peers) ELSE NoHandle
       IN /\ udp_sockets' = [udp_sockets EXCEPT ![h] = [state |-> "Established", peer_handle |-> p]]
          /\ udp_peers' = IF with_peer THEN udp_peers \cup {p} ELSE udp_peers
    /\ UNCHANGED <<dropped_sockets, waker>>

\* UdpSocket::close: with_mut(|s| s.close()), which wakes the runner
UdpSocket_close(h) ==
    /\ udp_sockets[h] # NoUdp
    /\ udp_sockets' = [udp_sockets EXCEPT ![h].state = "Closed"]
    /\ waker' = TRUE
    /\ UNCHANGED <<dropped_sockets, udp_peers>>

\* impl Drop for UdpSocket
UdpSocket_drop(h) ==
    /\ udp_sockets[h] # NoUdp
    /\ dropped_sockets' =
          IF udp_sockets[h].state = "Established" /\ udp_sockets[h].peer_handle # NoHandle
          THEN Vec_push(dropped_sockets, udp_sockets[h].peer_handle, DROPPED_SOCKETS_CAPACITY)
          ELSE dropped_sockets
    /\ udp_sockets' = [udp_sockets EXCEPT ![h] = NoUdp]
    /\ waker' = TRUE
    /\ UNCHANGED udp_peers

\* the runner, woken, closes the peers of the dropped sockets on the module
RunnerClosesDropped ==
    /\ waker
    /\ udp_peers' = udp_peers \ {dropped_sockets[i] : i \in 1..Len(dropped_sockets)}
    /\ dropped_sockets' = <<>>
    /\ waker' = FALSE
    /\ UNCHANGED udp_sockets

----------------------------------------------------------------------------
(* Wi-Fi station connect and disconnect (ublox-short-range wifi/sta.rs) *)

NoStaConnection == [exists |-> FALSE, wifi_state |-> "Inactive"]
\* WifiConnection::new(network, wifi_state, config_id)
StaConnection(wifi_state) == [exists |-> TRUE, wifi_state |-> wifi_state]

NoStaRet == [op |-> "none", res |-> "none"]

InitStaIdle ==
    /\ sta_connection = NoStaConnection
    /\ sta_ret = NoStaRet
    /\ sta_log = <<>>

\* ConnectionOptions: which of the optional fields are set
StaOptions == [ip : BOOLEAN, subnet : BOOLEAN, gateway : BOOLEAN, password : BOOLEAN]

\* the commands connect sends for the options, in order
ConfigCommands(o) ==
    (IF o.ip \/ o.subnet \/ o.gateway THEN <<"IPv4Mode">> ELSE <<>>)
      \o (IF o.ip THEN <<"IPv4Address">> ELSE <<>>)
      \o (IF o.subnet THEN <<"SubnetMask">> ELSE <<>>)
      \o (IF o.gateway THEN <<"DefaultGateway">> ELSE <<>>)
      \o <<"SSID">>
      \o (IF o.password THEN <<"Authentication", "WpaPskOrPassphrase">> ELSE <<>>)
ConnectCommands(o) == <<"Deactivate">> \o ConfigCommands(o) \o <<"Activate">>

\* WifiConnectivity::connect; the module refuses command number fail_at
\* (0: none)
sta_connect(o, fail_at) ==
    LET all == ConnectCommands(o)
        waiting == sta_connection.exists /\ sta_connection.wifi_state # "Inactive"
    IN IF fail_at = 1
       THEN /\ sta_log' = <<"Deactivate">>
            /\ sta_ret' = [op |-> "connect", res |-> "CommandFailed"]
            /\ UNCHANGED sta_connection
       ELSE IF waiting
       THEN /\ sta_log' = <<"Deactivate">>
            /\ sta_ret' = [op |-> "connect", res |-> "WaitingForWifiDeactivation"]
            /\ UNCHANGED sta_connection
       ELSE IF fail_at \in 2..(Len(all) - 1)
       THEN /\ sta_log' = SubSeq(all, 1, fail_at)
            /\ sta_ret' = [op |-> "connect", res |-> "CommandFailed"]
            /\ UNCHANGED sta_connection
       ELSE /\ sta_log' = all
            /\ sta_connection' = StaConnection("NotConnected")
            /\ sta_ret' = [op |-> "connect",
                           res |-> IF fail_at = Len(all) THEN "CommandFailed" ELSE "Ok"]

\* WifiConnectivity::disconnect
sta_disconnect(answer) ==
    /\ IF sta_connection.exists
       THEN IF sta_connection.wifi_state \in {"Connected", "NotConnected"}
            THEN /\ sta_log' = <<"Deactivate">>
                 /\ sta_ret' = [op |-> "disconnect",
                                res |-> IF answer = "Ok" THEN "Ok" ELSE "CommandFailed"]
            ELSE /\ sta_log' = <<>>
                 /\ sta_ret' = [op |-> "disconnect", res |-> "Ok"]
       ELSE /\ sta_log' = <<>>
            /\ sta_ret' = [op |-> "disconnect", res |-> "FailedToDisconnect"]
    /\ UNCHANGED sta_connection

\* the client handles a WifiLinkConnected URC
StaLinkConnected ==
    /\ sta_connection' = StaConnection("Connected")
    /\ UNCHANGED <<sta_ret, sta_log>>

\* the client handles a WifiLinkDisconnected URC
StaLinkDisconnected(reason) ==
    /\ sta_connection.exists
    /\ sta_connection' = [sta_connection EXCEPT !.wifi_state =
                              IF reason = "NetworkDisabled" THEN "Inactive" ELSE "NotConnected"]
    /\ UNCHANGED <<sta_ret, sta_log>>

----------------------------------------------------------------------------
(* EDM commands (ublox-short-range/src/command/edm/mod.rs) *)

EDM_SIZE_FILTER == 15
PAYLOAD_OVERHEAD == 6
PAYLOAD_POSITION == 3
\* EdmAtCmdOverhead, the bytes the wrapper adds to the wrapped command's CommandLen
EdmAtCmdOverhead == 6
\* DataPackageSize, the largest data package
DataPackageSize == 4096
\* "\r\nOK"
OK_LITERAL == <<13, 10, 79, 75>>

\* x as u16, x as u8
AsU16(x) == x % 65536
AsU8(x) == x % 256

NoEdmOut == [tag |-> "None"]

InitEdmIdle ==
    /\ edm_in = [kind |-> "Idle"]
    /\ edm_out = NoEdmOut

\* a heapless Vec of capacity cap after extend and push of the parts: writing
\* past the capacity panics
HeaplessVec(parts, cap) ==
    IF Len(Concat(parts)) <= cap
    THEN [tag |-> "Bytes", bytes |-> Concat(parts)]
    ELSE [tag |-> "Panic"]

\* faulty variant: the length leaves out the two type bytes
AtPayloadLen_NoType(at_vec) == AsU16(Len(at_vec))

\* line 38
AtPayloadLen(at_vec) == AsU16(Len(at_vec) + 2)

\* line 103
DataPayloadLen(data) == AsU16(Len(data) + 3)

\* (payload_len >> 8) as u8 & EDM_SIZE_FILTER; the filter is 2^4 - 1
LenHi(payload_len) == AsU8(payload_len \div 256) % (EDM_SIZE_FILTER + 1)

\* (payload_len & 0xff) as u8
LenLo(payload_len) == AsU8(payload_len % 256)

\* EdmAtCmdWrapper::as_bytes; cmd.at is self.0.as_bytes(), cmd.cap the
\* wrapped command's CommandLen
EdmAtCmdWrapper_as_bytes(cmd) ==
    LET at_vec == cmd.at
        payload_len == AtPayloadLen(at_vec)
    IN HeaplessVec(<< <<STARTBYTE, LenHi(payload_len), LenLo(payload_len), 0, T_ATRequest>>,
                      at_vec,
                      <<ENDBYTE>> >>,
                   cmd.cap + EdmAtCmdOverhead)

\* EdmDataCommand::as_bytes
EdmDataCommand_as_bytes(cmd) ==
    LET payload_len == DataPayloadLen(cmd.data)
    IN HeaplessVec(<< <<STARTBYTE, LenHi(payload_len), LenLo(payload_len), 0, T_DataCommand,
                        cmd.channel>>,
                      cmd.data,
                      <<ENDBYTE>> >>,
                   DataPackageSize + 4)

\* EdmResendConnectEventsCommand::as_bytes
EdmResendConnectEventsCommand_as_bytes ==
    HeaplessVec(<< <<STARTBYTE, 0, 2, 0, T_ResendConnectEventsCommand, ENDBYTE>> >>, 8)

\* the commands handed to as_bytes
AtLengths == {0, 1, 2, 13, 253, 254, 255, 4093, 4094}
DataLengths == {0, 1, 252, 253, 4092, 4093, 4094}
FillBytes == {65, ENDBYTE, STARTBYTE}
Filled(n, b) == [i \in 1..n |-> b]

AtCommands ==
    { [kind |-> "At", at |-> Filled(n, b), cap |-> n + s] :
        n \in AtLengths, b \in FillBytes, s \in {0, 3} }

DataCommands ==
    { [kind |-> "Data", channel |-> c, data |-> Filled(n, b)] :
        n \in DataLengths, b \in {65, ENDBYTE}, c \in {0, 1} }

ResendCommands == { [kind |-> "Resend"] }


AsBytesAt ==
    /\ edm_in.kind = "At"
    /\ edm_out = NoEdmOut
    /\ edm_out' = EdmAtCmdWrapper_as_bytes(edm_in)
    /\ UNCHANGED edm_in

AsBytesData ==
    /\ edm_in.kind = "Data"
    /\ edm_out = NoEdmOut
    /\ edm_out' = EdmDataCommand_as_bytes(edm_in)
    /\ UNCHANGED edm_in

AsBytesResend ==
    /\ edm_in.kind = "Resend"
    /\ edm_out = NoEdmOut
    /\ edm_out' = EdmResendConnectEventsCommand_as_bytes
    /\ UNCHANGED edm_in

\* resp.ends_with(pat)
EndsWith(s, pat) == Len(s) >= Len(pat) /\ Slice(s, Len(s) - Len(pat), Len(s)) = pat

\* the wrapped command's parser (self.0.parse): it accepts the responses of
\* its own command and answers a parse error for any other bytes
ParserNames == {"NoResponse", "Status"}
\* "+U:1"
STATUS_LITERAL == <<43, 85, 58, 49>>
Accepts(p) ==
    IF p = "NoResponse" THEN {<<>>} ELSE {STATUS_LITERAL, STATUS_LITERAL \o CRLF}
Wrapped_parse(p, at_resp) ==
    IF at_resp \in Accepts(p)
    THEN [tag |-> "Ok", value |-> at_resp]
    ELSE [tag |-> "Parse"]

\* faulty variant: any payload type is taken for a confirmation
IsATConfirmation_Any(resp) == TRUE

\* line 62: resp[4] == PayloadType::ATConfirmation as u8
IsATConfirmation(resp) == resp[5] = T_ATConfirmation

\* what parse returned (res) and the byte slices it handed to the wrapped
\* parser (handed)
Parsed(res, handed) == [tag |-> "Parsed", res |-> res, handed |-> handed]

\* EdmAtCmdWrapper::parse
EdmAtCmdWrapper_parse(p, resp) ==
    IF \/ Len(resp) < PAYLOAD_OVERHEAD
       \/ ~StartsWith(resp, <<STARTBYTE>>)
       \/ ~EndsWith(resp, <<ENDBYTE>>)
    THEN Parsed([tag |-> "InvalidResponse"], <<>>)
    ELSE LET payload_len == calc_payload_len(resp)
         IN IF Len(resp) # payload_len + EDM_OVERHEAD \/ ~IsATConfirmation(resp)
            THEN Parsed([tag |-> "InvalidResponse"], <<>>)
            ELSE IF AT_COMMAND_POSITION > PAYLOAD_POSITION + payload_len
                    \/ PAYLOAD_POSITION + payload_len > Len(resp)
            THEN Parsed([tag |-> "Panic"], <<>>)
            ELSE LET pos == WindowsPosition(resp, OK_LITERAL)
                 IN IF pos = -1
                    THEN LET at_resp == Slice(resp, AT_COMMAND_POSITION, PAYLOAD_POSITION + payload_len)
                         IN Parsed(Wrapped_parse(p, at_resp), <<at_resp>>)
                    ELSE IF AT_COMMAND_POSITION > pos
                    THEN Parsed([tag |-> "Panic"], <<>>)
                    ELSE LET at_resp == Slice(resp, AT_COMMAND_POSITION, pos)
                         IN Parsed(Wrapped_parse(p, at_resp), <<at_resp>>)

\* the responses handed to parse: confirmation frames around these AT
\* responses, whole or damaged in one place
RespPayloads ==
    { <<>>,
      OK_LITERAL \o CRLF,
      STATUS_LITERAL \o CRLF,
      STATUS_LITERAL \o OK_LITERAL \o CRLF,
      OK_LITERAL \o CRLF \o STATUS_LITERAL \o CRLF,
      STATUS_LITERAL \o <<13, 10, 79>>,
      OK_LITERAL,
      <<79, 75>> }

ConfirmationFrame(at) ==
    <<STARTBYTE, LenHi(AsU16(Len(at) + 2)), LenLo(AsU16(Len(at) + 2)), 0, T_ATConfirmation>>
        \o at \o <<ENDBYTE>>

Damages ==
    {"none", "start", "end", "type", "request", "short", "long", "len_up", "len_down",
     "flags", "id", "cut", "empty", "ok_head"}

Damage(f, d) ==
    CASE d = "none" -> f
      [] d = "start" -> [f EXCEPT ![1] = 0]
      [] d = "end" -> [f EXCEPT ![Len(f)] = 0]
      [] d = "type" -> [f EXCEPT ![5] = T_ATEvent]
      [] d = "request" -> [f EXCEPT ![5] = T_ATRequest]
      [] d = "short" -> Slice(f, 0, Len(f) - 2) \o <<ENDBYTE>>
      [] d = "long" -> Slice(f, 0, Len(f) - 1) \o <<65, ENDBYTE>>
      [] d = "len_up" -> [f EXCEPT ![3] = (f[3] + 1) % 256]
      [] d = "len_down" -> [f EXCEPT ![3] = (f[3] + 255) % 256]
      [] d = "flags" -> [f EXCEPT ![2] = f[2] + 240]
      [] d = "id" -> [f EXCEPT ![4] = 1]
      [] d = "cut" -> Slice(f, 0, 5)
      [] d = "empty" -> <<>>
      [] d = "ok_head" -> <<STARTBYTE>> \o OK_LITERAL \o Slice(f, 5, Len(f))

Responses ==
    { [kind |-> "Resp", parser |-> p, resp |-> Damage(ConfirmationFrame(at), d)] :
        p \in ParserNames, at \in RespPayloads, d \in Damages }

ParseResp ==
    /\ edm_in.kind = "Resp"
    /\ edm_out = NoEdmOut
    /\ edm_out' = EdmAtCmdWrapper_parse(edm_in.parser, edm_in.resp)
    /\ UNCHANGED edm_in

EdmInputs == AtCommands \cup DataCommands \cup ResendCommands \cup Responses

----------------------------------------------------------------------------
(* Runner::init (asynch/runner.rs): times are in ms *)

RESET_PULSE_MS == 100
HARD_STARTUP_TIMEOUT_MS == 4000
SOFT_STARTUP_TIMEOUT_MS == 10000
EDM_TIMEOUT_MS == 4000
SETTLE_MS == 50
RETRY_MS == 10

NoFailure == [step |-> "None", error |-> "None", at |-> 0]
NoWait == [phase |-> "None", urc |-> "None", at |-> 0]

InitInitIdle ==
    /\ init_pc = "Start"
    /\ init_phase = "reset"
    /\ init_timer = 0
    /\ init_log = <<>>
    /\ init_result = "Pending"
    /\ init_failed = NoFailure
    /\ in_edm = FALSE
    /\ confirm_age = -1
    /\ sent_gap = -1
    /\ retried = FALSE
    /\ last_wait = NoWait

\* the answers of the environment
\* when the URC wait_startup looks for, or the one it skips, arrives
ArrivalTimes == {0, 4000, 4010, 10000, 10010}
\* how long the AT client takes to answer SwitchToEdmCommand
SendDurations == {40, 990}

\* the first failure init met; log is the log once the failing step is over
Failed(step, error, log) ==
    IF init_failed = NoFailure
    THEN [step |-> step, error |-> error, at |-> Len(log)]
    ELSE init_failed

\* the ? operator on an Err: init returns the error
Return(error) ==
    /\ init_pc' = "Done"
    /\ init_result' = error

\* lines 93-101, 144, 192: the arguments of the steps of init
ArgsOf(step) ==
    CASE step = "SetRS232Settings" -> <<115200, "On", 8, "One", "None", "StoreAndReset">>
      [] step = "SetEcho" -> <<"On">>
      [] step = "Delay100" -> <<RESET_PULSE_MS>>
      [] OTHER -> <<>>

Step(step) == [step |-> step, args |-> ArgsOf(step)]

\* repeated SwitchToEdmCommand is logged once
Logged(step) ==
    IF /\ step = "SwitchToEdmCommand"
       /\ Len(init_log) > 0
       /\ init_log[Len(init_log)].step = step
    THEN init_log
    ELSE Append(init_log, Step(step))

\* lines 143, 145: self.reset.set_low().ok(), self.reset.set_high().ok()
\* drop the pin's error
PinResult(ok) == "Ok"

\* line 143
ResetLow(ok) ==
    /\ init_pc = "Start"
    /\ init_log' = Logged("ResetLow")
    /\ init_failed' = IF ok THEN init_failed ELSE Failed("ResetLow", "Pin", init_log')
    /\ IF PinResult(ok) = "Ok"
       THEN init_pc' = "Pulse" /\ UNCHANGED init_result
       ELSE Return("Pin")
    /\ UNCHANGED <<init_phase, init_timer, in_edm, confirm_age, sent_gap, retried, last_wait>>

\* line 144
PulseElapses ==
    /\ init_pc = "Pulse"
    /\ init_log' = Logged("Delay100")
    /\ init_pc' = "PulseDone"
    /\ UNCHANGED <<init_phase, init_timer, init_result, init_failed, in_edm, confirm_age,
                   sent_gap, retried, last_wait>>

\* line 145: the module boots
ResetHigh(ok) ==
    /\ init_pc = "PulseDone"
    /\ init_log' = Logged("ResetHigh")
    /\ init_failed' = IF ok THEN init_failed ELSE Failed("ResetHigh", "Pin", init_log')
    /\ IF PinResult(ok) = "Ok"
       THEN init_pc' = "WaitStartup" /\ UNCHANGED init_result
       ELSE Return("Pin")
    /\ init_phase' = "reset"
    /\ in_edm' = FALSE
    /\ confirm_age' = -1
    /\ UNCHANGED <<init_timer, sent_gap, retried, last_wait>>

\* lines 147, 162
StartupTimeout(phase) ==
    IF phase = "reset" THEN HARD_STARTUP_TIMEOUT_MS ELSE SOFT_STARTUP_TIMEOUT_MS

\* wait_startup: urc arrives after t ms; only ATEvent(Urc::StartUp) ends
\* the loop, and with_timeout answers Timeout once the time is up
wait_startup(urc, t) ==
    /\ init_pc = "WaitStartup"
    /\ last_wait' = [phase |-> init_phase, urc |-> urc, at |-> t]
    /\ IF urc = "AtStartUp" /\ t <= StartupTimeout(init_phase)
       THEN /\ init_log' = Logged("StartUp")
            /\ init_pc' = "EnterEdm"
            /\ init_timer' = 0
            /\ retried' = FALSE
            /\ UNCHANGED <<init_result, init_failed>>
       ELSE /\ Return("Timeout")
            /\ init_failed' = Failed("WaitStartup", "Timeout", init_log)
            /\ UNCHANGED <<init_log, init_timer, retried>>
    /\ UNCHANGED <<init_phase, in_edm, confirm_age, sent_gap>>

\* faulty variant: the settle delay is as short as the retry delay
SettleDeadline_Retry(confirmed_at) == confirmed_at + RETRY_MS

\* line 181: Timer::after(50 ms) after the confirmation
SettleDeadline(confirmed_at) == confirmed_at + SETTLE_MS

\* lines 175-185: one turn of the loop of enter_edm under with_timeout; the
\* AT client answers after d ms
SwitchAttempt(d, ok) ==
    /\ init_pc = "EnterEdm"
    /\ init_log' = Logged("SwitchToEdmCommand")
    /\ sent_gap' = confirm_age
    /\ IF init_timer + d > EDM_TIMEOUT_MS
       THEN \* the timeout drops the future while the command is in flight
            /\ Return("Timeout")
            /\ init_failed' = Failed("EnterEdm", "Timeout", init_log')
            /\ confirm_age' = -1
            /\ UNCHANGED <<init_timer, in_edm, retried>>
       ELSE IF ok
       THEN /\ in_edm' = TRUE
            /\ IF SettleDeadline(init_timer + d) <= EDM_TIMEOUT_MS
               THEN /\ init_pc' = "SetEcho"
                    /\ init_timer' = SettleDeadline(init_timer + d)
                    /\ confirm_age' = SettleDeadline(init_timer + d) - (init_timer + d)
                    /\ UNCHANGED <<init_result, init_failed>>
               ELSE /\ Return("Timeout")
                    /\ init_failed' = Failed("EnterEdm", "Timeout", init_log')
                    /\ init_timer' = EDM_TIMEOUT_MS
                    /\ confirm_age' = EDM_TIMEOUT_MS - (init_timer + d)
            /\ UNCHANGED retried
       ELSE /\ IF init_timer + d + RETRY_MS > EDM_TIMEOUT_MS
               THEN /\ Return("Timeout")
                    /\ init_failed' = Failed("EnterEdm", "Timeout", init_log')
                    /\ init_timer' = EDM_TIMEOUT_MS
               ELSE /\ init_timer' = init_timer + d + RETRY_MS
                    /\ UNCHANGED <<init_pc, init_result, init_failed>>
            /\ retried' = TRUE
            /\ confirm_age' = -1
            /\ UNCHANGED in_edm
    /\ UNCHANGED <<init_phase, last_wait>>

\* faulty variant: the soft restart does not store the configuration
RestartStores_Not == FALSE

\* line 104: self.restart(true)
RestartStores == TRUE

\* the statement after an EDM command that succeeded
AfterCommand(pc, phase) ==
    CASE pc = "SetEcho" /\ phase = "reset" -> "SetRS232Settings"
      [] pc = "SetEcho" /\ phase = "restart" -> "SoftwareVersion"
      [] pc = "SetRS232Settings" -> IF RestartStores THEN "StoreCurrentConfig" ELSE "RebootDCE"
      [] pc = "StoreCurrentConfig" -> "RebootDCE"
      [] pc = "RebootDCE" -> "WaitStartup"
      [] pc = "SoftwareVersion" -> "Done"

EdmCommands == {"SetEcho", "SetRS232Settings", "StoreCurrentConfig", "RebootDCE", "SoftwareVersion"}

\* self.at.send_edm(cmd).await? at lines 93-102, 106, 157, 160, 192
SendEdm(ok) ==
    /\ init_pc \in EdmCommands
    /\ init_log' = Logged(init_pc)
    /\ sent_gap' = confirm_age
    /\ confirm_age' = -1
    /\ IF ok
       THEN /\ init_pc' = AfterCommand(init_pc, init_phase)
            /\ init_result' = IF init_pc = "SoftwareVersion" THEN "Ok" ELSE init_result
            /\ UNCHANGED init_failed
       ELSE /\ Return("AtError")
            /\ init_failed' = Failed(init_pc, "AtError", init_log')
    /\ init_phase' = IF init_pc = "RebootDCE" THEN "restart" ELSE init_phase
    /\ in_edm' = IF init_pc = "RebootDCE" /\ ok THEN FALSE ELSE in_edm
    /\ UNCHANGED <<init_timer, retried, last_wait>>

----------------------------------------------------------------------------
(* TcpSocket::recycle applied to one socket and one instant *)

NoRecycleOut == [tag |-> "None"]
Recycled(b) == [tag |-> "Returned", value |-> b]

InitRecycleIdle ==
    /\ rec_in = [kind |-> "Idle"]
    /\ rec_out = NoRecycleOut

\* instants of the clock, in seconds: around zero, around a read timeout of
\* 10 s and around the longest duration Milliseconds<u32> holds
RecycleInstants == {0, 1, 10, 11, MAX_MILLIS_SECONDS, MAX_MILLIS_SECONDS + 1, MAX_MILLIS_SECONDS + 11}
RecycleTimeouts == {NoTimeout, 0, 10}
RecycleStates == {"Created", "WaitingForConnect", "Connected", "ShutdownForWrite"}

\* a socket in state tag, entered at instant at for ShutdownForWrite
RecycleSocket(tag, at, read_timeout) ==
    [tag |-> tag,
     remote |-> IF tag \in {"WaitingForConnect", "Connected"} THEN "r1" ELSE NoRemote,
     at |-> IF tag = "ShutdownForWrite" THEN at ELSE 0,
     read_timeout |-> read_timeout]

RecycleInputs ==
    { [kind |-> "Recycle", socket |-> RecycleSocket(tag, at, rt), ts |-> ts] :
        tag \in RecycleStates, at \in RecycleInstants, rt \in RecycleTimeouts,
        ts \in RecycleInstants }

ApplyRecycle ==
    /\ rec_in.kind = "Recycle"
    /\ rec_out = NoRecycleOut
    /\ rec_out' = Recycled(recycle(rec_in.socket, rec_in.ts))
    /\ UNCHANGED rec_in

----------------------------------------------------------------------------
(* Specifications *)

Bssids == {1, 2}
Channels == {6, 11}

Init == InitDigest /\ InitRunner /\ InitTcpIdle /\ InitUdpIdle /\ InitStaIdle /\ InitEdmIdle /\ InitInitIdle /\ InitRecycleIdle /\ InitWaitIdle

Next ==
    \/ \E k \in 1..Len(Input) : Write(k) /\ UNCHANGED <<runnerVars, tcpVars, udpVars, staVars, edmVars, initVars, recVars, waitVars>>
    \/ WriteRest /\ UNCHANGED <<runnerVars, tcpVars, udpVars, staVars, edmVars, initVars, recVars, waitVars>>
    \/ Digest /\ UNCHANGED <<runnerVars, tcpVars, udpVars, staVars, edmVars, initVars, recVars, waitVars>>

Spec == Init /\ [][Next]_vars

\* the runner alone, the ingress idle on an empty stream
InitRunnerOnly ==
    /\ scn = [kind |-> "idle", parts |-> <<>>]
    /\ fed = 0
    /\ buf = <<>>
    /\ pending = FALSE
    /\ calls = <<>>
    /\ InitRunner
    /\ InitTcpIdle
    /\ InitUdpIdle
    /\ InitStaIdle /\ InitEdmIdle /\ InitInitIdle /\ InitRecycleIdle /\ InitWaitIdle

NextRunner ==
    \/ \E k \in {"AtStartUp", "EdmStartUp"} : UrcStartUp(k) /\ UNCHANGED <<digestVars, tcpVars, udpVars, staVars, edmVars, initVars, recVars, waitVars>>
    \/ \E b \in Bssids, c \in Channels : UrcWifiLinkConnected(b, c) /\ UNCHANGED <<digestVars, tcpVars, udpVars, staVars, edmVars, initVars, recVars, waitVars>>
    \/ \E r \in DisconnectReasons : UrcWifiLinkDisconnected(r) /\ UNCHANGED <<digestVars, tcpVars, udpVars, staVars, edmVars, initVars, recVars, waitVars>>
    \/ \E k \in {"NetworkUp", "NetworkDown"}, i \in InterfaceAnswers,
          g \in AddressAnswers, l \in AddressAnswers :
          UrcNetworkChange(k, i, g, l) /\ UNCHANGED <<digestVars, tcpVars, udpVars, staVars, edmVars, initVars, recVars, waitVars>>
    \/ \E k \in TodoUrcs : UrcTodo(k) /\ UNCHANGED <<digestVars, tcpVars, udpVars, staVars, edmVars, initVars, recVars, waitVars>>
    \/ UrcOther /\ UNCHANGED <<digestVars, tcpVars, udpVars, staVars, edmVars, initVars, recVars, waitVars>>

SpecRunner == InitRunnerOnly /\ [][NextRunner]_vars

\* the TCP stack alone: the ingress and the runner idle
InitTcpOnly ==
    /\ scn = [kind |-> "idle", parts |-> <<>>]
    /\ fed = 0
    /\ buf = <<>>
    /\ pending = FALSE
    /\ calls = <<>>
    /\ InitRunner
    /\ has_sockets \in BOOLEAN
    /\ sockets = [h \in SocketHandles |-> NoSocket]
    /\ peer_map = EmptyMap
    /\ channel_map = EmptyMap
    /\ network \in BOOLEAN
    /\ now = 0
    /\ tcp_pc = NoHandle
    /\ ret = NoRet
    /\ edm_log = <<>>
    /\ module_peers = {}
    /\ pending_urcs = {}
    /\ ncalls = 0
    /\ closed_ok = {}
    /\ InitUdpIdle
    /\ InitStaIdle /\ InitEdmIdle /\ InitInitIdle /\ InitRecycleIdle /\ InitWaitIdle

NextTcp ==
    \/ socket /\ UNCHANGED <<digestVars, runnerVars, udpVars, staVars, edmVars, initVars, recVars, waitVars>>
    \/ \E h \in SocketHandles, r \in Remotes, u \in UrlAnswers, a \in ConnectPeerAnswers :
          connect(h, r, u, a) /\ UNCHANGED <<digestVars, runnerVars, udpVars, staVars, edmVars, initVars, recVars, waitVars>>
    \/ ConnectReturn /\ UNCHANGED <<digestVars, runnerVars, udpVars, staVars, edmVars, initVars, recVars>>
    \/ \E ev \in ModuleEvents(DriverState) : ConnectSpin(ev) /\ UNCHANGED <<digestVars, runnerVars, udpVars, staVars, edmVars, initVars, recVars>>
    \/ ConnectSpinFails /\ UNCHANGED <<digestVars, runnerVars, udpVars, staVars, edmVars, initVars, recVars>>
    \/ \E h \in SocketHandles, n \in SendLengths, f \in FailAts :
          send(h, Buf(n), f) /\ UNCHANGED <<digestVars, runnerVars, udpVars, staVars, edmVars, initVars, recVars, waitVars>>
    \/ \E h \in SocketHandles, ev \in ModuleEvents(DriverState) :
          receive(h, ev) /\ UNCHANGED <<digestVars, runnerVars, udpVars, staVars, edmVars, initVars, recVars, waitVars>>
    \/ \E h \in SocketHandles : ReceiveSpinFails(h) /\ UNCHANGED <<digestVars, runnerVars, udpVars, staVars, edmVars, initVars, recVars, waitVars>>
    \/ \E h \in SocketHandles, a \in ClosePeerAnswers :
          close(h, a) /\ UNCHANGED <<digestVars, runnerVars, udpVars, staVars, edmVars, initVars, recVars, waitVars>>
    \/ \E h \in SocketHandles, t \in ReadTimeouts : set_read_timeout(h, t) /\ UNCHANGED <<digestVars, runnerVars, udpVars, staVars, edmVars, initVars, recVars, waitVars>>
    \/ Tick /\ UNCHANGED <<digestVars, runnerVars, udpVars, staVars, edmVars, initVars, recVars, waitVars>>

SpecTcp == InitTcpOnly /\ [][NextTcp]_vars

\* the wait loop of connect keeps iterating (tcp_stack.rs:119-134): it
\* leaves when its condition is false and calls spin() otherwise; whether
\* spin() fails is not up to the loop
ConnectLoop ==
    (ConnectReturn \/ \E ev \in ModuleEvents(DriverState) : ConnectSpin(ev))
        /\ UNCHANGED <<digestVars, runnerVars, udpVars, staVars, edmVars, initVars, recVars>>

SpecTcpFair == InitTcpOnly /\ [][NextTcp]_vars /\ WF_vars(ConnectLoop)

\* the ingress idle on an empty stream
InitDigestIdle ==
    /\ scn = [kind |-> "idle", parts |-> <<>>]
    /\ fed = 0
    /\ buf = <<>>
    /\ pending = FALSE
    /\ calls = <<>>

\* the UDP sockets alone
InitUdpOnly == InitDigestIdle /\ InitRunner /\ InitTcpIdle /\ InitUdpIdle /\ InitStaIdle /\ InitEdmIdle /\ InitInitIdle /\ InitRecycleIdle /\ InitWaitIdle

NextUdp ==
    \/ UdpSocket_new /\ UNCHANGED <<digestVars, runnerVars, tcpVars, staVars, edmVars, initVars, recVars, waitVars>>
    \/ \E h \in UdpHandles, w \in BOOLEAN : StackEstablishes(h, w) /\ UNCHANGED <<digestVars, runnerVars, tcpVars, staVars, edmVars, initVars, recVars, waitVars>>
    \/ \E h \in UdpHandles : UdpSocket_close(h) /\ UNCHANGED <<digestVars, runnerVars, tcpVars, staVars, edmVars, initVars, recVars, waitVars>>
    \/ \E h \in UdpHandles : UdpSocket_drop(h) /\ UNCHANGED <<digestVars, runnerVars, tcpVars, staVars, edmVars, initVars, recVars, waitVars>>
    \/ RunnerClosesDropped /\ UNCHANGED <<digestVars, runnerVars, tcpVars, staVars, edmVars, initVars, recVars, waitVars>>

SpecUdp == InitUdpOnly /\ [][NextUdp]_vars

\* the Wi-Fi station calls alone
InitStaOnly == InitDigestIdle /\ InitRunner /\ InitTcpIdle /\ InitUdpIdle /\ InitStaIdle /\ InitEdmIdle /\ InitInitIdle /\ InitRecycleIdle /\ InitWaitIdle

NextSta ==
    \/ \E o \in StaOptions : \E f \in 0..Len(ConnectCommands(o)) :
          sta_connect(o, f) /\ UNCHANGED <<digestVars, runnerVars, tcpVars, udpVars, edmVars, initVars, recVars, waitVars>>
    \/ \E a \in {"Ok", "Err"} : sta_disconnect(a) /\ UNCHANGED <<digestVars, runnerVars, tcpVars, udpVars, edmVars, initVars, recVars, waitVars>>
    \/ StaLinkConnected /\ UNCHANGED <<digestVars, runnerVars, tcpVars, udpVars, edmVars, initVars, recVars, waitVars>>
    \/ \E r \in {"NetworkDisabled", "OutOfRange"} :
          StaLinkDisconnected(r) /\ UNCHANGED <<digestVars, runnerVars, tcpVars, udpVars, edmVars, initVars, recVars, waitVars>>

SpecSta == InitStaOnly /\ [][NextSta]_vars

\* the EDM encoders and the response parser alone, applied to one input
InitEdmOnly ==
    /\ InitDigestIdle /\ InitRunner /\ InitTcpIdle /\ InitUdpIdle /\ InitStaIdle /\ InitInitIdle /\ InitRecycleIdle /\ InitWaitIdle
    /\ edm_in \in EdmInputs
    /\ edm_out = NoEdmOut

NextEdm ==
    \/ AsBytesAt /\ UNCHANGED <<digestVars, runnerVars, tcpVars, udpVars, staVars, initVars, recVars, waitVars>>
    \/ AsBytesData /\ UNCHANGED <<digestVars, runnerVars, tcpVars, udpVars, staVars, initVars, recVars, waitVars>>
    \/ AsBytesResend /\ UNCHANGED <<digestVars, runnerVars, tcpVars, udpVars, staVars, initVars, recVars, waitVars>>
    \/ ParseResp /\ UNCHANGED <<digestVars, runnerVars, tcpVars, udpVars, staVars, initVars, recVars, waitVars>>

SpecEdm == InitEdmOnly /\ [][NextEdm]_vars

\* Runner::init alone
InitInitOnly == InitDigestIdle /\ InitRunner /\ InitTcpIdle /\ InitUdpIdle /\ InitStaIdle /\ InitEdmIdle /\ InitInitIdle /\ InitRecycleIdle /\ InitWaitIdle

NextInit ==
    \/ \E ok \in BOOLEAN : ResetLow(ok) /\ UNCHANGED <<digestVars, runnerVars, tcpVars, udpVars, staVars, edmVars, recVars, waitVars>>
    \/ PulseElapses /\ UNCHANGED <<digestVars, runnerVars, tcpVars, udpVars, staVars, edmVars, recVars, waitVars>>
    \/ \E ok \in BOOLEAN : ResetHigh(ok) /\ UNCHANGED <<digestVars, runnerVars, tcpVars, udpVars, staVars, edmVars, recVars, waitVars>>
    \/ \E urc \in {"AtStartUp", "EdmStartUp"}, t \in ArrivalTimes :
          wait_startup(urc, t) /\ UNCHANGED <<digestVars, runnerVars, tcpVars, udpVars, staVars, edmVars, recVars, waitVars>>
    \/ \E d \in SendDurations, ok \in BOOLEAN :
          SwitchAttempt(d, ok) /\ UNCHANGED <<digestVars, runnerVars, tcpVars, udpVars, staVars, edmVars, recVars, waitVars>>
    \/ \E ok \in BOOLEAN : SendEdm(ok) /\ UNCHANGED <<digestVars, runnerVars, tcpVars, udpVars, staVars, edmVars, recVars, waitVars>>

SpecInit == InitInitOnly /\ [][NextInit]_vars

\* TcpSocket::recycle alone
InitRecycleOnly ==
    /\ InitDigestIdle /\ InitRunner /\ InitTcpIdle /\ InitUdpIdle /\ InitStaIdle /\ InitEdmIdle /\ InitInitIdle /\ InitWaitIdle
    /\ rec_in \in RecycleInputs
    /\ rec_out = NoRecycleOut

NextRecycle ==
    \/ ApplyRecycle /\ UNCHANGED <<digestVars, runnerVars, tcpVars, udpVars, staVars, edmVars, initVars, waitVars>>

SpecRecycle == InitRecycleOnly /\ [][NextRecycle]_vars




----------------------------------------------------------------------------
(* Vocabulary of the digester claims *)

TypeOf(F) == F[5]
PayloadOf(F) == Slice(F, 5, Len(F) - 1)
NCalls == Len(calls)

\* the whole stream was in the buffer at the first digest call
Whole == NCalls >= 1 /\ calls[1].buf = Input

EventTypes == {T_ATEvent, T_ConnectEvent, T_DataEvent, T_DisconnectEvent}

\* call c delivered frame F as a response and consumed exactly F
IsResponseFor(c, F) ==
    /\ c.res.consumed = Len(F)
    /\ \/ c.res.kind = "ResponseErr"
       \/ c.res.kind = "ResponseOk" /\ c.res.slice = F

\* call c delivered frame F as a URC and consumed exactly F
IsUrcFor(c, F) ==
    c.res.consumed = Len(F) /\ c.res.kind = "Urc" /\ c.res.slice = F

\* call c dropped frame F: nothing emitted, exactly F consumed
IsDropOf(c, F) ==
    c.res.consumed = Len(F) /\ c.res.kind = "None"

\* what the type byte of F prescribes for the call that digests it
AsTypePrescribes(c, F) ==
    IF TypeOf(F) \in {T_ATConfirmation, T_StartEvent} THEN IsResponseFor(c, F)
    ELSE IF TypeOf(F) \in EventTypes THEN IsUrcFor(c, F)
    ELSE IsDropOf(c, F)

\* "ERROR" at the start of the AT payload, or two bytes later
ErrorAtKnownOffset(P) ==
    \/ Len(P) >= 5 /\ Slice(P, 0, 5) = ERROR_LITERAL
    \/ Len(P) >= 7 /\ Slice(P, 2, 7) = ERROR_LITERAL

----------------------------------------------------------------------------
(* Claims about the digester *)

\* C1: every Response(Ok(s)) and every Urc(s) of the binary-frame path is
\* s = buf[0..N] with s[0] = 0xAA, s[N-1] = 0x55, N = calc_payload_len(buf) + 4,
\* and consumed = N.
C1_EmittedFrameIsFramed ==
    \A n \in 1..NCalls :
        LET c == calls[n]
            N == Len(c.res.slice)
        IN (c.res.kind = "ResponseOk" \/ (c.res.kind = "Urc" /\ c.res.path = "frame")) =>
              /\ N >= 4
              /\ c.res.slice = Slice(c.buf, 0, N)
              /\ c.res.slice[1] = 170
              /\ c.res.slice[N] = 85
              /\ N = ((c.buf[2] * 256 + c.buf[3]) % 4096) + 4
              /\ c.res.consumed = N

C1_Witness ==
    /\ NCalls >= 2
    /\ calls[1].res.kind = "ResponseOk"
    /\ calls[2].res.kind = "Urc" /\ calls[2].res.path = "frame"

\* C2 (as stated): a well-formed frame of any type byte, alone in the buffer,
\* yields Response(Ok(F)), Response(Err) or Urc(F) with consumed = |F|.
C2_AnyTypeIsEmitted ==
    (scn.kind = "single" /\ Whole) =>
        LET F == scn.parts[1]
        IN IsResponseFor(calls[1], F) \/ IsUrcFor(calls[1], F)

\* C2 (amended): a well-formed frame alone in the buffer is consumed whole;
\* ATConfirmation and StartEvent yield a Response, the four event types yield
\* Urc(F), and every other type byte yields None.
C2_ResultByType ==
    (scn.kind = "single" /\ Whole) => AsTypePrescribes(calls[1], scn.parts[1])

C2_Witness ==
    /\ scn.kind = "single" /\ Whole
    /\ TypeOf(scn.parts[1]) = T_StartEvent
    /\ calls[1].res.kind = "ResponseOk"
    /\ Len(scn.parts[1]) > 6

\* C3: a strict non-empty prefix F1 of a well-formed frame yields (None, 0),
\* and once the rest has arrived the call yields what F yields when fed whole.
C3_SplitFrame ==
    (scn.kind = "single" /\ NCalls >= 1 /\ Len(calls[1].buf) < Len(Input)) =>
        /\ calls[1].res.kind = "None"
        /\ calls[1].res.consumed = 0
        /\ NCalls >= 2 =>
              /\ calls[2].buf = Input
              /\ AsTypePrescribes(calls[2], scn.parts[1])

\* C4: noise N without 0xAA before a well-formed frame F: the first call
\* returns None and consumes exactly |N|, the next call digests F.
C4_NoiseThenFrame ==
    (scn.kind = "noise" /\ Whole) =>
        /\ calls[1].res.kind = "None"
        /\ calls[1].res.consumed = Len(scn.parts[1])
        /\ NCalls >= 2 =>
              /\ calls[2].buf = scn.parts[2]
              /\ AsTypePrescribes(calls[2], scn.parts[2])

\* C5: a non-empty buffer without 0xAA that is no banner line is discarded
\* whole: None with consumed = |buf|.
C5_GarbageDiscarded ==
    (/\ scn.kind = "garbage" /\ Whole
     /\ ~StartsWith(Input, CRLF)
     /\ WindowsPosition(Input, STARTUPMESSAGE) = -1) =>
        /\ calls[1].res.kind = "None"
        /\ calls[1].res.consumed = Len(Input)

C7_BannerThenResponse ==
    (scn.kind = "banner" /\ Whole) =>
        /\ calls[1].res.kind = "Urc"
        /\ calls[1].res.slice = STARTUPMESSAGE
        /\ calls[1].res.consumed = 12
        /\ NCalls >= 2 =>
              /\ calls[2].buf = scn.parts[2]
              /\ IsResponseFor(calls[2], scn.parts[2])

C7_Witness ==
    /\ scn.kind = "banner" /\ Whole /\ NCalls >= 2
    /\ calls[2].res.kind = "ResponseOk"

\* C8: an ATConfirmation frame is Response(Err(InvalidResponse)) exactly when
\* "ERROR" stands at the start of the AT payload or two bytes later, and
\* Response(Ok(frame)) otherwise; consumed is the frame length.
C8_ErrorResponse ==
    (scn.kind = "single" /\ Whole /\ TypeOf(scn.parts[1]) = T_ATConfirmation) =>
        LET F == scn.parts[1]
        IN /\ calls[1].res.consumed = Len(F)
           /\ IF ErrorAtKnownOffset(PayloadOf(F))
              THEN calls[1].res.kind = "ResponseErr"
              ELSE calls[1].res.kind = "ResponseOk" /\ calls[1].res.slice = F

C8_Witness ==
    /\ scn.kind = "single" /\ Whole
    /\ scn.parts[1] = Frame(T_ATConfirmation, P_CRLF_ERROR)
    /\ calls[1].res.kind = "ResponseErr"

\* C9: a well-formed frame of an unsupported type is dropped: None with
\* consumed = frame length, and the frame that follows is digested normally.
C9_UnsupportedTypeDropped ==
    (scn.kind \in {"single", "pair"} /\ Whole /\ TypeOf(scn.parts[1]) \notin HandledTypes) =>
        /\ calls[1].res.kind = "None"
        /\ calls[1].res.consumed = Len(scn.parts[1])
        /\ (scn.kind = "pair" /\ NCalls >= 2) =>
              /\ calls[2].buf = scn.parts[2]
              /\ AsTypePrescribes(calls[2], scn.parts[2])

C9_Witness ==
    /\ scn.kind = "pair" /\ Whole /\ NCalls >= 2
    /\ TypeOf(scn.parts[1]) = T_Unknown
    /\ calls[1].res.kind = "None"
    /\ calls[2].res.kind = "ResponseOk"

----------------------------------------------------------------------------
(* Claims about the runner *)

\* C10: the run loop never stops or fails because of a URC: whatever URC it
\* takes and whatever the module answers, it is still running afterwards; a
\* failed status refresh leaves network_up unchanged.
C10_RunLoopNeverFails ==
    runner_pc = "running"

\* C11: after every handled URC the link-state register is Up exactly when a
\* Wi-Fi descriptor exists with wifi_state = Connected and network_up = true,
\* and Down otherwise; it is never Up while wifi_state is Inactive or
\* NotConnected.
C11_LinkStateIsPredicate ==
    /\ link_state \in {"Up", "Down"}
    /\ link_state = "Up" <=>
          /\ wifi_connection.exists
          /\ wifi_connection.wifi_state = "Connected"
          /\ wifi_connection.network_up
    /\ wifi_connection.wifi_state \in {"Inactive", "NotConnected"} => link_state = "Down"

\* the link went up and a WifiLinkDisconnected took it down again
C11_Witness ==
    /\ last_urc.kind = "WifiLinkDisconnected"
    /\ wifi_connection.exists /\ wifi_connection.network_up
    /\ wifi_connection.wifi_state = "NotConnected"
    /\ link_state = "Down"

\* the IP layer is not up
IpLayerDown ==
    ~wifi_connection.exists \/ ~wifi_connection.network_up

\* C12: from a runner whose IP layer is not up, handling WifiLinkConnected
\* publishes Down; a NetworkUp handled next publishes Up when the refresh
\* reports a WifiStation interface and two parseable, non-unspecified
\* addresses, and leaves the register Down when either address is missing,
\* unparseable or unspecified.
C12_ConnectedThenNetworkUp ==
    [][ /\ (IpLayerDown /\ \E b \in Bssids, c \in Channels : UrcWifiLinkConnected(b, c))
            => link_state' = "Down"
        /\ \A i \in InterfaceAnswers, g \in AddressAnswers, l \in AddressAnswers :
              (/\ last_urc.kind = "WifiLinkConnected"
               /\ link_state = "Down"
               /\ UrcNetworkChange("NetworkUp", i, g, l))
              => link_state' = IF i = "WifiStation" /\ g = "Address" /\ l = "Address"
                               THEN "Up" ELSE "Down"
      ]_vars

\* WifiLinkConnected on a fresh runner, then a NetworkUp that brought the link up
C12_Witness ==
    /\ handled = 2
    /\ last_urc = [kind |-> "NetworkUp", refresh |-> "ok"]
    /\ at_log = <<"InterfaceType", "Gateway", "IPv6LinkLocalAddress">>
    /\ link_state = "Up"

----------------------------------------------------------------------------
(* Claims about the TCP stack *)

\* a socket closed by the remote at least its read timeout ago
TimedOut(s, ts) ==
    /\ s.tag = "ShutdownForWrite"
    /\ s.read_timeout # NoTimeout
    /\ ts - s.at >= s.read_timeout

\* what socket() does on a full table: SocketSetFull and an unchanged table
\* when no socket is recyclable; otherwise it succeeds, and only timed-out
\* sockets were removed
FullTableOutcome ==
    IF \E h \in Live(sockets) : TimedOut(sockets[h], now)
    THEN /\ ret'.res = "Ok"
         /\ \A h \in SocketHandles :
               sockets'[h] # sockets[h] => TimedOut(sockets[h], now)
         /\ sockets'[ret'.h] = TcpSocket_new
         /\ TimedOut(sockets[ret'.h], now)
    ELSE /\ ret'.res = "SocketSetFull"
         /\ sockets' = sockets

C14_ConnectedHasPeer ==
    \A h \in Live(sockets) :
        sockets[h].tag = "Connected" => socket_to_peer(peer_map, h) # NoHandle

\* C15: whenever connect(h, r) has returned Ok, is_connected(h) is true,
\* whatever module events the wait loop handled.
C15_ConnectOkIsConnected ==
    (ret.op = "connect" /\ ret.res = "Ok") => is_connected(ret.h) = "true"

\* C16: once close(h) has returned Ok, every send(h, ..) returns SocketClosed
\* and hands no EdmDataCommand to the module, whatever the state of the socket
\* was at the close and whether or not the disconnect event was handled.
C16_SendAfterClose ==
    [][ \A h \in closed_ok, n \in SendLengths, f \in FailAts :
            send(h, Buf(n), f) => ret'.res = "SocketClosed" /\ edm_log' = <<>>
      ]_vars

CeilDiv(n, d) == (n + d - 1) \div d

ChunkData(log) == [i \in 1..Len(log) |-> log[i].data]

\* log is a sequence of EdmDataCommands on channel ch of at most
\* EGRESS_CHUNK_SIZE bytes each
DataCommandsOn(log, ch) ==
    \A i \in 1..Len(log) :
        /\ log[i].cmd = "EdmDataCommand"
        /\ log[i].id = ch
        /\ Len(log[i].data) <= EGRESS_CHUNK_SIZE

\* send(h, buf) handed all of buf to the module in ceil(|buf| / 512) commands
AllSubmitted(h, n) ==
    /\ DataCommandsOn(edm_log', socket_to_channel_id(channel_map, h))
    /\ Len(edm_log') = CeilDiv(n, EGRESS_CHUNK_SIZE)
    /\ Concat(ChunkData(edm_log')) = Buf(n)

Sendable(h) ==
    sockets[h].tag = "Connected" /\ socket_to_channel_id(channel_map, h) # NoHandle

\* the step is the call send(h, Buf(n), f)
SendStep(h, n, f) ==
    /\ ret'.op = "send" /\ ret'.h = h
    /\ ret'.res = "Ok" => ret'.n = n
    /\ send(h, Buf(n), f)

\* C18 as stated: send(h, buf) on a Connected socket with a channel id submits
\* exactly ceil(|buf| / 512) EdmDataCommands of at most 512 bytes on that
\* channel whose payloads concatenated are buf, returns |buf| only if every
\* chunk was submitted, and an empty buf submits nothing and returns 0; on a
\* socket that is not Connected or has no channel id it returns SocketClosed
\* and submits nothing.
C18_SendAnyLink ==
    [][ \A h \in Live(sockets), n \in SendLengths, f \in FailAts :
            SendStep(h, n, f) =>
                IF Sendable(h)
                THEN /\ AllSubmitted(h, n)
                     /\ ret'.res = "Ok" => ret'.n = n
                     /\ n = 0 => ret'.res = "Ok" /\ ret'.n = 0 /\ edm_log' = <<>>
                ELSE ret'.res = "SocketClosed" /\ edm_log' = <<>>
      ]_vars

\* C18, amended: while the network is up, send(h, buf) on a Connected socket
\* with a channel id submits the chunks of buf in order up to and including
\* the first one the module refuses; when none is refused these are exactly
\* ceil(|buf| / 512) EdmDataCommands of at most 512 bytes on that channel
\* whose payloads concatenated are buf, and send returns |buf|; when one is
\* refused send returns an error. An empty buf submits nothing and returns 0.
\* On a socket that is not Connected or has no channel id send returns
\* SocketClosed and submits nothing. While the network is down send fails
\* and submits nothing.
C18_SendChunks ==
    [][ \A h \in Live(sockets), n \in SendLengths, f \in FailAts :
            SendStep(h, n, f) =>
                IF ~connected_to_network
                THEN ret'.res # "Ok" /\ edm_log' = <<>>
                ELSE IF Sendable(h)
                THEN IF f \in 1..CeilDiv(n, EGRESS_CHUNK_SIZE)
                     THEN /\ DataCommandsOn(edm_log', socket_to_channel_id(channel_map, h))
                          /\ Len(edm_log') = f
                          /\ Concat(ChunkData(edm_log')) =
                                SubSeq(Buf(n), 1, IF f * EGRESS_CHUNK_SIZE < n
                                                  THEN f * EGRESS_CHUNK_SIZE ELSE n)
                          /\ ret'.res # "Ok"
                     ELSE /\ AllSubmitted(h, n)
                          /\ ret'.res = "Ok" /\ ret'.n = n
                          /\ n = 0 => edm_log' = <<>>
                ELSE ret'.res = "SocketClosed" /\ edm_log' = <<>>
      ]_vars

\* a send of two full chunks and one byte has returned its length
C18_Witness ==
    /\ ret.op = "send" /\ ret.res = "Ok"
    /\ ret.n = 2 * EGRESS_CHUNK_SIZE + 1
    /\ Len(edm_log) = 3
    /\ Len(edm_log[3].data) = 1

\* C19: close(h) on a socket that is neither Created nor ShutdownForWrite and
\* has a peer handle submits exactly one ClosePeerConnection, for that peer;
\* it returns Ok when the module answers Ok or InvalidResponse and an error
\* only when the command fails otherwise.
C19_ClosePeer ==
    [][ \A h \in Live(sockets), a \in ClosePeerAnswers :
            ( /\ close(h, a)
              /\ sockets[h].tag \notin {"Created", "ShutdownForWrite"}
              /\ socket_to_peer(peer_map, h) # NoHandle ) =>
                /\ edm_log' = <<Cmd("ClosePeerConnection", socket_to_peer(peer_map, h), <<>>)>>
                /\ a \in {"Ok", "InvalidResponse"} => ret'.res = "Ok"
                /\ ret'.res # "Ok" => a = "Err"
      ]_vars

\* a close of a Connected socket has sent one ClosePeerConnection for the
\* socket's peer and returned Ok
C19_Witness ==
    /\ ret.op = "close" /\ ret.res = "Ok"
    /\ ret.h \in closed_ok
    /\ sockets[ret.h].tag = "Connected"
    /\ edm_log = <<Cmd("ClosePeerConnection", socket_to_peer(peer_map, ret.h), <<>>)>>

\* close(h) of a socket that is Created or ShutdownForWrite removes h from the
\* table, sends nothing to the module and returns Ok
CloseRemoves ==
    \A h \in Live(sockets), a \in ClosePeerAnswers :
        (close(h, a) /\ sockets[h].tag \in {"Created", "ShutdownForWrite"}) =>
            /\ sockets' = SocketSet_remove(sockets, h)
            /\ SocketSet_len(sockets') = SocketSet_len(sockets) - 1
            /\ edm_log' = <<>>
            /\ ret'.res = "Ok"

C21_NetworkDownError ==
    [][ \A h \in Live(sockets) :
            ( /\ ~connected_to_network
              /\ ret'.h = h
              /\ \/ \E r \in Remotes, u \in UrlAnswers, a \in ConnectPeerAnswers :
                        connect(h, r, u, a)
                 \/ \E n \in SendLengths, f \in FailAts : SendStep(h, n, f) ) =>
                /\ ret'.res = "Network"
                /\ edm_log' = <<>>
                /\ sockets' = sockets
                /\ peer_map' = peer_map
                /\ channel_map' = channel_map
      ]_vars

----------------------------------------------------------------------------
(* Claims about the UDP socket *)

\* C22: dropping a UdpSocket that is Established and has a peer handle leaves
\* that peer handle in dropped_sockets, whatever the list held before; every
\* drop removes the socket from the socket set and wakes the runner.
C22_DropHandsOverPeer ==
    [][ \A h \in UdpHandles :
            UdpSocket_drop(h) =>
                /\ (udp_sockets[h].state = "Established" /\ udp_sockets[h].peer_handle # NoHandle)
                      => \E i \in 1..Len(dropped_sockets') :
                             dropped_sockets'[i] = udp_sockets[h].peer_handle
                /\ udp_sockets'[h] = NoUdp
                /\ waker'
      ]_vars

----------------------------------------------------------------------------
(* Claims about the Wi-Fi station calls *)

\* C23: once disconnect() has returned Ok the Wi-Fi connection descriptor is
\* cleared; disconnect() without a descriptor returns FailedToDisconnect and
\* sends no command.
C23_DisconnectClears ==
    [][ \A a \in {"Ok", "Err"} :
            sta_disconnect(a) =>
                /\ sta_ret'.res = "Ok" => ~sta_connection'.exists
                /\ ~sta_connection.exists =>
                      sta_ret'.res = "FailedToDisconnect" /\ sta_log' = <<>>
      ]_vars

\* C24: EdmAtCmdWrapper::as_bytes produces 0xAA, len_hi, len_lo, 0x00, 0x44,
\* the wrapped command's AT bytes, 0x55 with len = |at_bytes| + 2 in the low
\* 12 bits of the big-endian length field; that frame, the EdmDataCommand
\* frame and the ResendConnectEvents frame have total size
\* calc_payload_len(frame) + 4 whenever the 12-bit field can hold the length.
C24_AsBytesFrame ==
    /\ ( /\ edm_in.kind = "At"
         /\ edm_out # NoEdmOut
         /\ Len(edm_in.at) + 2 <= 4095 ) =>
            /\ edm_out.tag = "Bytes"
            /\ LET len == Len(edm_in.at) + 2
               IN /\ edm_out.bytes = <<170, len \div 256, len % 256, 0, 68>> \o edm_in.at \o <<85>>
                  /\ calc_payload_len(edm_out.bytes) = len
                  /\ Len(edm_out.bytes) = calc_payload_len(edm_out.bytes) + 4
    /\ ( /\ edm_in.kind = "Data"
         /\ edm_out # NoEdmOut
         /\ Len(edm_in.data) + 3 <= 4095 ) =>
            /\ edm_out.tag = "Bytes"
            /\ Len(edm_out.bytes) = calc_payload_len(edm_out.bytes) + 4
    /\ ( /\ edm_in.kind = "Resend"
         /\ edm_out # NoEdmOut ) =>
            /\ edm_out.tag = "Bytes"
            /\ Len(edm_out.bytes) = calc_payload_len(edm_out.bytes) + 4

\* the longest AT command the length field can hold has been framed
C24_Witness ==
    /\ edm_in.kind = "At"
    /\ Len(edm_in.at) = 4093
    /\ edm_out.tag = "Bytes"
    /\ edm_out.bytes[2] = 15
    /\ edm_out.bytes[3] = 255

\* the AT bytes of a confirmation frame: what follows the type field up to
\* the end byte, cut at the first "\r\nOK"
C25_AtBytes(resp) ==
    LET payload == Slice(resp, 5, Len(resp) - 1)
        cut == WindowsPosition(payload, <<13, 10, 79, 75>>)
    IN IF cut = -1 THEN payload ELSE Slice(payload, 0, cut)

C25_BadFraming(resp) ==
    \/ Len(resp) < 5
    \/ resp[1] # 170
    \/ resp[Len(resp)] # 85
    \/ Len(resp) # calc_payload_len(resp) + 4
    \/ resp[5] # 69

\* C25: EdmAtCmdWrapper::parse returns InvalidResponse without invoking the
\* wrapped parser when the response does not start with 0xAA, does not end
\* with 0x55, is shorter or longer than calc_payload_len + 4 or has a type
\* byte other than ATConfirmation; for a correctly framed response it
\* invokes the wrapped parser once, on the extracted AT bytes, and returns
\* that parser's value or parse error.
C25_ParseFraming ==
    (edm_in.kind = "Resp" /\ edm_out # NoEdmOut) =>
        IF C25_BadFraming(edm_in.resp)
        THEN edm_out = Parsed([tag |-> "InvalidResponse"], <<>>)
        ELSE /\ edm_out.handed = <<C25_AtBytes(edm_in.resp)>>
             /\ edm_out.res = Wrapped_parse(edm_in.parser, C25_AtBytes(edm_in.resp))

\* a well-framed "+U:1\r\nOK\r\n" has been parsed to the wrapped parser's value
C25_Witness ==
    /\ edm_in.kind = "Resp"
    /\ edm_in.resp = ConfirmationFrame(STATUS_LITERAL \o OK_LITERAL \o CRLF)
    /\ edm_out # NoEdmOut
    /\ edm_out.res = [tag |-> "Ok", value |-> STATUS_LITERAL]

\* C26 (timeouts): init returns Error::Timeout when the StartUp URC does
\* not arrive within 4 s of the hard reset or within 10 s of the soft
\* reboot, and when enter_edm gives up on SwitchToEdmCommand.
C26_TimeoutsSurface ==
    /\ ( /\ last_wait.phase = "reset"
         /\ ~(last_wait.urc = "AtStartUp" /\ last_wait.at <= 4000) ) =>
            init_pc = "Done" /\ init_result = "Timeout"
    /\ ( /\ last_wait.phase = "restart"
         /\ ~(last_wait.urc = "AtStartUp" /\ last_wait.at <= 10000) ) =>
            init_pc = "Done" /\ init_result = "Timeout"
    /\ init_failed.step = "EnterEdm" => init_pc = "Done" /\ init_result = "Timeout"

\* C26: init surfaces the timeouts, and when any step fails init returns
\* that error and none of the later steps is executed.
C26_FailFast ==
    /\ C26_TimeoutsSurface
    /\ init_failed # NoFailure =>
          /\ init_pc = "Done"
          /\ init_result = init_failed.error
          /\ Len(init_log) = init_failed.at

InitOrder ==
    << [step |-> "ResetLow", args |-> <<>>],
       [step |-> "Delay100", args |-> <<100>>],
       [step |-> "ResetHigh", args |-> <<>>],
       [step |-> "StartUp", args |-> <<>>],
       [step |-> "SwitchToEdmCommand", args |-> <<>>],
       [step |-> "SetEcho", args |-> <<"On">>],
       [step |-> "SetRS232Settings", args |-> <<115200, "On", 8, "One", "None", "StoreAndReset">>],
       [step |-> "StoreCurrentConfig", args |-> <<>>],
       [step |-> "RebootDCE", args |-> <<>>],
       [step |-> "StartUp", args |-> <<>>],
       [step |-> "SwitchToEdmCommand", args |-> <<>>],
       [step |-> "SetEcho", args |-> <<"On">>],
       [step |-> "SoftwareVersion", args |-> <<>>] >>

\* C27: a successful init has performed exactly reset low, 100 ms, reset
\* high, StartUp, SwitchToEdmCommand until confirmed, SetEcho,
\* SetRS232Settings(115200, flow on, 8N1, StoreAndReset), StoreCurrentConfig,
\* RebootDCE, StartUp, SwitchToEdmCommand until confirmed, SetEcho,
\* SoftwareVersion, in this order; and every EDM-wrapped AT command is sent
\* after SwitchToEdmCommand was confirmed since the last (re)boot.
C27_InitOrder ==
    /\ [](init_result = "Ok" => init_log = InitOrder)
    /\ [][(\E ok \in BOOLEAN : SendEdm(ok)) => in_edm]_vars

\* init has returned Ok after enter_edm had to retry
C27_Witness ==
    /\ init_result = "Ok"
    /\ init_pc = "Done"
    /\ retried

\* C28: at least 50 ms lie between the confirmation of SwitchToEdmCommand
\* and the next command the runner sends, which is SetEcho, whatever the
\* number of retries and the time left before the timeout of enter_edm.
C28_SettleBeforeEcho ==
    /\ sent_gap = -1 \/ sent_gap >= 50
    /\ ( /\ Len(init_log) > 0
         /\ init_log[Len(init_log)].step = "SetEcho" ) => sent_gap >= 50

\* SetEcho has been sent after a confirmation that came on a retry, 3940 ms
\* or later into the 4 s of enter_edm
C28_Witness ==
    /\ Len(init_log) > 0
    /\ init_log[Len(init_log)].step = "SetEcho"
    /\ retried
    /\ init_timer >= 3990
    /\ init_result = "Pending"
    /\ sent_gap = 50

\* C29: WifiLinkDisconnected(reason) handled with a descriptor sets
\* wifi_state to Inactive for NetworkDisabled, leaves it for
\* SecurityProblems and sets it to NotConnected for every other reason;
\* bssid and channel stay and the link state is published again from the
\* new descriptor. Without a descriptor nothing is created or changed.
C29_LinkDisconnected ==
    [][ \A reason \in DisconnectReasons :
            UrcWifiLinkDisconnected(reason) =>
                IF wifi_connection.exists
                THEN /\ wifi_connection'.exists
                     /\ wifi_connection'.wifi_state =
                            IF reason = "NetworkDisabled" THEN "Inactive"
                            ELSE IF reason = "SecurityProblems" THEN wifi_connection.wifi_state
                            ELSE "NotConnected"
                     /\ wifi_connection'.bssid = wifi_connection.bssid
                     /\ wifi_connection'.channel = wifi_connection.channel
                     /\ wifi_connection'.network_up = wifi_connection.network_up
                     /\ link_state' = IF /\ wifi_connection'.network_up
                                         /\ wifi_connection'.wifi_state = "Connected"
                                      THEN "Up" ELSE "Down"
                ELSE /\ wifi_connection' = wifi_connection
                     /\ link_state' = link_state ]_vars

\* a disconnect for security problems has been handled on a connected
\* descriptor whose network is up: the state stayed Connected
C29_Witness ==
    /\ last_urc.kind = "WifiLinkDisconnected"
    /\ wifi_connection.exists
    /\ wifi_connection.wifi_state = "Connected"
    /\ wifi_connection.network_up
    /\ link_state = "Up"

----------------------------------------------------------------------------
(* More claims about the digester *)

\* what the claim prescribes for a buffer that ends with the startup message
BannerAndWholeBuffer(c) ==
    /\ c.res.kind = "Urc"
    /\ c.res.slice = STARTUPMESSAGE
    /\ c.res.consumed = Len(c.buf)

\* C31 (as stated): whenever buf ends with the startup message, digest
\* returns Urc(startup message) and consumes the whole buffer, whatever
\* precedes the banner.
C31_TrailingStartupAnyHead ==
    \A n \in 1..NCalls :
        EndsWith(calls[n].buf, STARTUPMESSAGE) => BannerAndWholeBuffer(calls[n])

\* C31 (amended): whenever buf ends with the startup message and either is
\* the startup message alone or does not begin with "\r\n", digest returns
\* Urc(startup message) and consumes the whole buffer.
C31_TrailingStartup ==
    \A n \in 1..NCalls :
        ( /\ EndsWith(calls[n].buf, STARTUPMESSAGE)
          /\ calls[n].buf = STARTUPMESSAGE \/ ~StartsWith(calls[n].buf, CRLF) ) =>
            BannerAndWholeBuffer(calls[n])

\* a buffer of a zero byte and the startup message has been digested
C31_Witness ==
    /\ NCalls >= 1
    /\ calls[1].buf = <<0>> \o STARTUPMESSAGE
    /\ calls[1].res.kind = "Urc"
    /\ calls[1].res.consumed = 13

\* C32: a head 0xAA whose length field points at a byte that is present but
\* is not 0x55 is discarded as further bytes arrive, and the well-formed frame
\* behind it is emitted: once the whole stream has arrived and digest has
\* nothing more to do, some call has delivered the frame behind the corrupt
\* one as its type prescribes.
C32_Resynchronises ==
    (/\ scn.kind = "corrupt"
     /\ TypeOf(scn.parts[2]) \in HandledTypes
     /\ fed = Len(Input)
     /\ ~pending) =>
        \E n \in 1..NCalls : AsTypePrescribes(calls[n], scn.parts[2])

\* the complete well-formed frame of a handled type at the head of b, or <<>>
HeadFrame(b) ==
    IF /\ Len(b) >= EDM_OVERHEAD + 2
       /\ b[1] = STARTBYTE
       /\ FrameComplete(b, calc_payload_len(b) + EDM_OVERHEAD)
       /\ calc_payload_len(b) >= 2
       /\ b[5] \in HandledTypes
    THEN Slice(b, 0, calc_payload_len(b) + EDM_OVERHEAD)
    ELSE <<>>

\* C33: digest never consumes bytes of a complete well-formed frame of a
\* handled type at the head of buf without emitting that frame, whatever
\* follows the frame in the buffer.
C33_HeadFrameNotLost ==
    \A n \in 1..NCalls :
        (HeadFrame(calls[n].buf) # <<>> /\ calls[n].res.consumed > 0) =>
            AsTypePrescribes(calls[n], HeadFrame(calls[n].buf))

\* C34: digest never reads outside buf, for any buffer of any length (the
\* frames with a length field of 0 or 1 included), and the type byte it
\* dispatches on lies inside the frame it emits or drops.
C34_NoReadOutsideBuf ==
    \A n \in 1..NCalls :
        /\ calls[n].res.kind # "Panic"
        /\ calls[n].res.path = "frame" => calls[n].res.consumed >= 5

\* C35: for every input buffer digest returns a result with
\* consumed <= |buf|, and consumed = 0 only together with None (a Response or
\* a Urc consumes at least one byte), so repeated calls on a buffer that
\* receives no new bytes stop after finitely many calls.
C35_ConsumedWithinBuf ==
    \A n \in 1..NCalls :
        /\ calls[n].res.kind \in {"None", "ResponseOk", "ResponseErr", "Urc"}
        /\ calls[n].res.consumed <= Len(calls[n].buf)
        /\ calls[n].res.consumed = 0 => calls[n].res.kind = "None"

----------------------------------------------------------------------------
(* More claims about the TCP stack *)

\* C36: connect terminates: once ConnectPeer has succeeded and the wait loop
\* has been entered, the loop ends (with Ok or an error) in every execution,
\* also when the module delivers no connect or disconnect event.
C36_ConnectTerminates == (tcp_pc # NoHandle) ~> (tcp_pc = NoHandle)

\* the last call was a connect that has returned an error
ConnectFailed ==
    /\ ret.op = "connect"
    /\ tcp_pc = NoHandle
    /\ ret.res \notin {"Ok", "waiting"}

\* C37: whenever connect(h, r) returns an error, socket h is not left in
\* WaitingForConnect (ConnectPeer failed, the peer could not be registered,
\* or spin failed during the wait).
C37_FailedConnectNotWaiting ==
    (ConnectFailed /\ SocketSet_has(sockets, ret.h)) =>
        sockets[ret.h].tag # "WaitingForConnect"

\* the peer handles whose entry in the peer map has socket h as its value
PeersOf(h) == {peer_map[i][1] : i \in {j \in 1..Len(peer_map) : peer_map[j][2] = h}}

\* C38: in every reachable state each socket handle is the value of at most
\* one entry of the peer map (also after connect was called twice on the
\* same handle), and the peer map holds at most 4 entries.
C38_OnePeerPerSocket ==
    /\ \A h \in SocketHandles : Cardinality(PeersOf(h)) <= 1
    /\ Len(peer_map) <= PEER_MAP_CAPACITY

----------------------------------------------------------------------------
(* More claims about the runner *)

\* C39: link loss resets IP readiness: when a WifiLinkDisconnected URC has
\* brought the published link state Down, the link state stays Down across
\* a following WifiLinkConnected; it becomes Up again only by a later
\* NetworkUp/NetworkDown refresh that completed with both addresses.
C39_LinkLossResetsReadiness ==
    [][ (last_urc.kind = "WifiLinkDisconnected" /\ link_state = "Down") =>
            /\ (\E b \in Bssids, c \in Channels : UrcWifiLinkConnected(b, c))
                  => link_state' = "Down"
            /\ link_state' = "Up" =>
                  /\ last_urc'.kind \in {"NetworkUp", "NetworkDown"}
                  /\ last_urc'.refresh = "ok"
      ]_vars

\* C40: handling an unexpected StartUp event (the AT-event URC or the EDM
\* event) changes nothing: the Wi-Fi descriptor and the published link state
\* are what they were, the loop goes on, and no command is sent.
C40_StartUpChangesNothing ==
    [][ (handled' = handled + 1 /\ last_urc'.kind \in {"AtStartUp", "EdmStartUp"}) =>
            /\ wifi_connection' = wifi_connection
            /\ link_state' = link_state
            /\ runner_pc' = runner_pc
            /\ at_log' = <<>>
      ]_vars

\* an EDM StartUp event has been handled while the link was Up
C40_Witness ==
    /\ last_urc.kind = "EdmStartUp"
    /\ handled = 3
    /\ wifi_connection.exists
    /\ wifi_connection.wifi_state = "Connected"
    /\ wifi_connection.network_up
    /\ link_state = "Up"

====
